---- MODULE Spec2Model ----
(***************************************************************************)
(* Compliance Copilot (Groq edition), src/app.py: the chunker, the JSON    *)
(* salvage step, the report normalizer and the model invoker, each as a    *)
(* state machine over the values the Python code manipulates.              *)
(***************************************************************************)
EXTENDS Integers, Sequences, FiniteSets, TLC

VARIABLES
    \* ---- chunk_text (src/app.py:58-71) ----
    raw_text,     \* the argument `text` as passed in
    text,         \* the local `text` after text.strip()
    max_chars,    \* parameter max_chars
    overlap,      \* parameter overlap
    start,        \* local `start`
    chunks,       \* local `chunks`: the slices appended so far
    spans,        \* for each appended chunk, the pair <<start, end>> it was cut at
    cpc,          \* position in chunk_text: "idle", "entry", "loop", "done"
    \* ---- force_parse_json (src/app.py:169-182) ----
    content,      \* the argument `s`: the text of one model reply
    origin,       \* how the reply was written: [kind, fenced, trailing, intended]
    parsed,       \* the outcome of force_parse_json: [ok, val, repaired]
    ppc,          \* position in force_parse_json: "idle", "entry", "done"
    \* ---- validate_and_postprocess (src/app.py:185-229) ----
    obj,          \* the argument `obj`: a parsed model reply
    report,       \* the outcome of validate_and_postprocess(obj): [ok, report, err]
    again,        \* the outcome of validate_and_postprocess on the report returned
    npc,          \* "idle", "entry", "once" (normalized), "twice" (normalized again)
    \* ---- one request: analyze / analyze_sse.gen / analyze_chunks / call_groq_json ----
    caller,       \* who runs the analysis: "analyze", "analyze_sse", or "direct" (analyze_chunks called directly)
    key_set,      \* GROQ_API_KEY is configured
    rpc,          \* position in the request
    n_chunks,     \* len(chunks) handed to analyze_chunks
    chunk_i,      \* analyze_chunks: the loop variable `i`, index of the chunk being processed
    attempt,      \* call_groq_json: the loop variable `attempt`
    last_error,   \* call_groq_json: the local `last_error`, [n, kind] (n = 0: None)
    results,      \* analyze_chunks: the per-chunk reports collected
    final,        \* the report analyze_chunks returned: [ok, report]
    raised,       \* the exception leaving analyze_chunks: [type, cause]
    response,     \* what the caller of the request got: [status, body, error]
    events,       \* analyze_sse: the events emitted so far
    inserts,      \* number of insert calls on the report store
    stored,       \* the reports the store accepted
    total_calls,  \* completion calls made in this request
    chunk_calls,  \* completion calls made in the current call_groq_json
    last_call,    \* the most recent completion call: [n, chunk, prompt, kind]
    all_prose,    \* every reply to the current call_groq_json was text without braces
    size_check,   \* what reading and measuring the upload gave: "none" (not yet), "ok", "oversize", "unreadable"
    extractions,  \* calls of extract_pdf_text made in this request
    store,        \* what save_report met: "none" (not called), "unconfigured", "accepts", "raises"
    sent,         \* indices of the chunks handed to the completion service
    extracted,    \* what extract_pdf_text gave this request: "none" (not called), "blank", "text"
    \* ---- one request to the backend variant (src/backend/app.py) ----
    b_caller,     \* "analyze" (analyze_document) or "analyze_sse" (analyze_document_sse)
    bpc,          \* position in the request
    b_calls,      \* completion calls made by analyze_with_groq
    b_result,     \* what analyze_with_groq returned: [ok, report]
    b_response,   \* the HTTP answer: [status, body]
    b_events,     \* the events sse_generator yielded
    b_stored,     \* the reports the store accepted
    \* ---- extract_pdf_text (src/app.py:74-102) ----
    pymupdf,      \* what extract_text_with_pymupdf does on the document: raises, or the page texts
    pdfplumber,   \* what extract_text_with_pdfplumber does on it: raises, or the page texts
    tried,        \* the extraction methods called so far, in order
    extract_ret,  \* what extract_pdf_text returned: [text, pages]
    xpc,          \* position in extract_pdf_text: "idle", "primary", "secondary", "returned"
    \* ---- two requests to /analyze_sse handled at the same time ----
    supabase_env, \* SUPABASE_URL, SUPABASE_KEY and create_client are all there
    supabase,     \* the module global _supabase: "None" or "client"
    table,        \* the rows of the reports table, each with the request that wrote it
    reqs          \* for each request: [pc, reply, report, seen, client, response]

chunkVars == <<raw_text, text, max_chars, overlap, start, chunks, spans, cpc>>
parseVars == <<content, origin, parsed, ppc>>

normVars == <<obj, report, again, npc>>

reqVars == <<caller, key_set, rpc, n_chunks, chunk_i, attempt, last_error, results, final, raised,
             response, events, inserts, stored, total_calls, chunk_calls, last_call, all_prose,
             size_check, extractions, store, sent, extracted>>

backVars == <<b_caller, bpc, b_calls, b_result, b_response, b_events, b_stored>>

extVars == <<pymupdf, pdfplumber, tried, extract_ret, xpc>>

pairVars == <<supabase_env, supabase, table, reqs>>

vars == <<chunkVars, parseVars, normVars, reqVars, backVars, extVars, pairVars>>

\* ------------------------------------------------------------------------
\* Generic helpers
\* ------------------------------------------------------------------------
Min(a, b) == IF a <= b THEN a ELSE b
Max(a, b) == IF a >= b THEN a ELSE b

\* Python slice s[lo:hi] for 0 <= lo, hi (indices clipped to the length)
Slice(s, lo, hi) == SubSeq(s, lo + 1, Min(hi, Len(s)))

\* ------------------------------------------------------------------------
\* chunk_text
\* ------------------------------------------------------------------------
MaxTextLen == 6      \* longest input text drawn
MaxWindow == 3       \* largest max_chars drawn
MaxOverlap == 2      \* largest overlap drawn
MaxChunks == 7       \* cap on the number of chunks appended (the loop is unbounded when the window does not advance)

TextChars == {"x", " "}
IsSpace(c) == c = " "

RECURSIVE LStrip(_)
LStrip(s) == IF s # <<>> /\ IsSpace(Head(s)) THEN LStrip(Tail(s)) ELSE s

RECURSIVE RStrip(_)
RStrip(s) == IF s # <<>> /\ IsSpace(s[Len(s)]) THEN RStrip(SubSeq(s, 1, Len(s) - 1)) ELSE s

\* str.strip()
Strip(s) == RStrip(LStrip(s))

Texts == UNION {[1..k -> TextChars] : k \in 0..MaxTextLen}

ChunkIdle ==
    /\ raw_text = <<>> /\ text = <<>> /\ max_chars = 0 /\ overlap = 0
    /\ start = 0 /\ chunks = <<>> /\ spans = <<>> /\ cpc = "idle"

\* A call chunk_text(text, max_chars, overlap)
ChunkCall ==
    /\ raw_text \in Texts
    /\ text = raw_text
    /\ max_chars \in 1..MaxWindow
    /\ overlap \in 0..MaxOverlap
    /\ start = 0 /\ chunks = <<>> /\ spans = <<>>
    /\ cpc = "entry"

\* lines 59-64: strip, the empty-text return, the loop variables
ChunkEntry ==
    /\ cpc = "entry"
    /\ text' = Strip(text)
    /\ start' = 0
    /\ chunks' = <<>> /\ spans' = <<>>
    /\ cpc' = IF Strip(text) = <<>> THEN "done" ELSE "loop"
    /\ UNCHANGED <<raw_text, max_chars, overlap>>
    /\ UNCHANGED <<parseVars, normVars, reqVars, backVars, extVars, pairVars>>

\* the window restarting at the end of the previous chunk, the overlap forgotten
NextStartNoOverlap(end) == Max(0, end)

\* start = max(0, end - overlap), line 70
NextStart(end) == Max(0, end - overlap)

\* the loop going on after a chunk that reached the end of the text
ReachedEndIgnored(end, n) == FALSE

\* if end == n: break, lines 68-69
ReachedEnd(end, n) == end = n

\* lines 65-70: one evaluation of the while condition and, if true, one pass of the body
ChunkStep ==
    /\ cpc = "loop"
    /\ Len(chunks) < MaxChunks
    /\ LET n == Len(text)
           end == Min(start + max_chars, n)
       IN IF start < n
          THEN /\ chunks' = Append(chunks, Slice(text, start, end))
               /\ spans' = Append(spans, <<start, end>>)
               /\ IF ReachedEnd(end, n)
                  THEN cpc' = "done" /\ start' = start
                  ELSE cpc' = "loop" /\ start' = NextStart(end)
          ELSE /\ cpc' = "done"
               /\ UNCHANGED <<chunks, spans, start>>
    /\ UNCHANGED <<raw_text, text, max_chars, overlap>>
    /\ UNCHANGED <<parseVars, normVars, reqVars, backVars, extVars, pairVars>>

\* ------------------------------------------------------------------------
\* force_parse_json (src/app.py:169-182): model text is a sequence of
\* one-character strings
\* ------------------------------------------------------------------------
BT == "BACKTICK"     \* the backtick character
QT == "\""           \* double quote
NL == "\n"           \* newline
Letters == {"j", "k"}
WhiteSpace == {" ", NL}

\* str.strip() over the whitespace of model text
RECURSIVE LStripWs(_)
LStripWs(s) == IF s # <<>> /\ Head(s) \in WhiteSpace THEN LStripWs(Tail(s)) ELSE s

RECURSIVE RStripWs(_)
RStripWs(s) == IF s # <<>> /\ s[Len(s)] \in WhiteSpace THEN RStripWs(SubSeq(s, 1, Len(s) - 1)) ELSE s

StripWs(s) == RStripWs(LStripWs(s))

RECURSIVE DropLetters(_)
DropLetters(s) == IF s # <<>> /\ Head(s) \in Letters THEN DropLetters(Tail(s)) ELSE s

Fence == <<BT, BT, BT>>

\* re.sub(r"^```[a-zA-Z]*", "", s), line 172
StripFenceStart(s) ==
    IF Len(s) >= 3 /\ SubSeq(s, 1, 3) = Fence THEN DropLetters(SubSeq(s, 4, Len(s))) ELSE s

\* re.sub(r"```$", "", s), line 173 ($ also matches before a final newline)
StripFenceEnd(s) ==
    LET n == Len(s)
    IN IF n >= 3 /\ SubSeq(s, n - 2, n) = Fence THEN SubSeq(s, 1, n - 3)
       ELSE IF n >= 4 /\ s[n] = NL /\ SubSeq(s, n - 3, n - 1) = Fence
            THEN SubSeq(s, 1, n - 4) \o <<NL>>
            ELSE s

\* re.search(r"\{[\s\S]*\}", s), lines 175-176: first "{" through last "}"
Candidate(s) ==
    LET opens == {i \in 1..Len(s) : s[i] = "{"}
        closes == {i \in 1..Len(s) : s[i] = "}"}
    IN IF opens = {} THEN s
       ELSE LET a == CHOOSE i \in opens : \A k \in opens : i <= k
                after == {i \in closes : i > a}
            IN IF after = {} THEN s
               ELSE SubSeq(s, a, CHOOSE i \in after : \A k \in after : i >= k)

\* first index >= i of s that holds no whitespace (Len(s)+1 if none)
RECURSIVE SkipWs(_, _)
SkipWs(s, i) == IF i <= Len(s) /\ s[i] \in WhiteSpace THEN SkipWs(s, i + 1) ELSE i

\* re.sub(r",\s*([}\]])", r"\1", candidate), line 181, scanning from index i
RECURSIVE RepairFrom(_, _)
RepairFrom(s, i) ==
    IF i > Len(s) THEN <<>>
    ELSE IF s[i] = ","
         THEN LET j == SkipWs(s, i + 1)
              IN IF j <= Len(s) /\ s[j] \in {"}", "]"}
                 THEN <<s[j]>> \o RepairFrom(s, j + 1)
                 ELSE <<",">> \o RepairFrom(s, i + 1)
         ELSE <<s[i]>> \o RepairFrom(s, i + 1)

RepairTrailingCommas(s) == RepairFrom(s, 1)

\* ---- json.loads: values are records [t, v] ----
JNum(n) == [t |-> "num", v |-> n]
JStr(c) == [t |-> "str", v |-> c]
JArr(a) == [t |-> "arr", v |-> a]
JObj(f) == [t |-> "obj", v |-> f]       \* f: function from key (character sequence) to value
NoValue == [t |-> "none", v |-> 0]

ParseFail == [ok |-> FALSE, val |-> NoValue, pos |-> 0]
ParseOk(val, pos) == [ok |-> TRUE, val |-> val, pos |-> pos]

\* index of the first double quote at or after i (0 if none)
RECURSIVE FindQuote(_, _)
FindQuote(s, i) == IF i > Len(s) THEN 0 ELSE IF s[i] = QT THEN i ELSE FindQuote(s, i + 1)

\* a string literal opening at s[i]; control characters are rejected (strict=True)
ParseString(s, i) ==
    LET j == FindQuote(s, i + 1)
    IN IF j = 0 THEN ParseFail
       ELSE IF \E k \in (i + 1)..(j - 1) : s[k] = NL THEN ParseFail
       ELSE ParseOk(JStr(SubSeq(s, i + 1, j - 1)), j + 1)

\* a run of decimal digits starting at s[i], acc the value read so far
RECURSIVE ParseDigits(_, _, _)
ParseDigits(s, i, acc) ==
    IF i <= Len(s) /\ s[i] = "1" THEN ParseDigits(s, i + 1, 10 * acc + 1) ELSE ParseOk(JNum(acc), i)

RECURSIVE ParseValue(_, _)
RECURSIVE ParseMembers(_, _, _)
RECURSIVE ParseElements(_, _, _)

\* members of an object, k the index where the next key must open
ParseMembers(s, k, acc) ==
    IF k > Len(s) \/ s[k] # QT THEN ParseFail
    ELSE LET key == ParseString(s, k)
         IN IF ~key.ok THEN ParseFail
            ELSE LET c == SkipWs(s, key.pos)
                 IN IF c > Len(s) \/ s[c] # ":" THEN ParseFail
                    ELSE LET val == ParseValue(s, c + 1)
                         IN IF ~val.ok THEN ParseFail
                            ELSE LET e == SkipWs(s, val.pos)
                                     acc2 == (key.val.v :> val.val) @@ acc
                                 IN IF e > Len(s) THEN ParseFail
                                    ELSE IF s[e] = "}" THEN ParseOk(JObj(acc2), e + 1)
                                    ELSE IF s[e] = "," THEN ParseMembers(s, SkipWs(s, e + 1), acc2)
                                    ELSE ParseFail

\* elements of an array, k the index where the next value starts
ParseElements(s, k, acc) ==
    LET val == ParseValue(s, k)
    IN IF ~val.ok THEN ParseFail
       ELSE LET e == SkipWs(s, val.pos)
                acc2 == Append(acc, val.val)
            IN IF e > Len(s) THEN ParseFail
               ELSE IF s[e] = "]" THEN ParseOk(JArr(acc2), e + 1)
               ELSE IF s[e] = "," THEN ParseElements(s, e + 1, acc2)
               ELSE ParseFail

ParseValue(s, i) ==
    LET j == SkipWs(s, i)
    IN IF j > Len(s) THEN ParseFail
       ELSE IF s[j] = "{"
            THEN LET k == SkipWs(s, j + 1)
                 IN IF k <= Len(s) /\ s[k] = "}" THEN ParseOk(JObj(<<>>), k + 1)
                    ELSE ParseMembers(s, k, <<>>)
       ELSE IF s[j] = "["
            THEN LET k == SkipWs(s, j + 1)
                 IN IF k <= Len(s) /\ s[k] = "]" THEN ParseOk(JArr(<<>>), k + 1)
                    ELSE ParseElements(s, k, <<>>)
       ELSE IF s[j] = QT THEN ParseString(s, j)
       ELSE IF s[j] = "1" THEN ParseDigits(s, j, 0)
       ELSE ParseFail

\* json.loads(s): one value, nothing but whitespace after it; otherwise JSONDecodeError
JsonLoads(s) ==
    LET r == ParseValue(s, 1)
    IN IF r.ok /\ SkipWs(s, r.pos) > Len(s) THEN r ELSE ParseFail

\* lines 171-176
FenceStripped(s) == StripFenceEnd(StripFenceStart(StripWs(s)))

\* force_parse_json: [ok, val, repaired]; ok = FALSE is the JSONDecodeError of line 182
ForceParseJson(s) ==
    LET candidate == Candidate(FenceStripped(s))
        strict == JsonLoads(candidate)
    IN IF strict.ok THEN [ok |-> TRUE, val |-> strict.val, repaired |-> FALSE]
       ELSE LET second == JsonLoads(RepairTrailingCommas(candidate))
            IN [ok |-> second.ok, val |-> second.val, repaired |-> TRUE]


\* ---- the replies force_parse_json is applied to ----
MaxStrLen == 2       \* longest string literal drawn in a reply

StrChars == {"j", ",", " ", "}", "]"}
StrContents == UNION {[1..k -> StrChars] : k \in 0..MaxStrLen}
KeyJ == <<"j">>
KeyK == <<"k">>

Scalars == {JNum(1), JNum(11)} \cup {JStr(c) : c \in StrContents}
Arrays == {JArr(<<>>)} \cup {JArr(<<x>>) : x \in Scalars}
InnerObjects == {JObj(<<>>)} \cup {JObj(KeyJ :> x) : x \in Scalars}
\* the JSON objects a reply is meant to carry
IntendedObjects ==
    {JObj(KeyJ :> x) : x \in Scalars \cup Arrays \cup InnerObjects}
        \cup {JObj((KeyJ :> x) @@ (KeyK :> JNum(1))) : x \in Scalars}

RECURSIVE Digits(_)
Digits(n) == IF n = 0 THEN <<>> ELSE Digits(n \div 10) \o <<"1">>

\* the text of value x; tail is what is written before each closing brace or bracket
\* of a non-empty container (<<>>, or a trailing comma with optional whitespace)
RECURSIVE Render(_, _)
Render(x, tail) ==
    IF x.t = "num" THEN Digits(x.v)
    ELSE IF x.t = "str" THEN <<QT>> \o x.v \o <<QT>>
    ELSE IF x.t = "arr"
         THEN IF x.v = <<>> THEN <<"[", "]">>
              ELSE IF Len(x.v) = 1 THEN <<"[">> \o Render(x.v[1], tail) \o tail \o <<"]">>
              ELSE <<"[">> \o Render(x.v[1], tail) \o <<",">> \o Render(x.v[2], tail) \o tail \o <<"]">>
    ELSE IF DOMAIN x.v = {} THEN <<"{", "}">>
    ELSE IF DOMAIN x.v = {KeyJ}
         THEN <<"{", QT, "j", QT, ":">> \o Render(x.v[KeyJ], tail) \o tail \o <<"}">>
    ELSE <<"{", QT, "j", QT, ":">> \o Render(x.v[KeyJ], tail) \o <<",", " ", QT, "k", QT, ":">>
             \o Render(x.v[KeyK], tail) \o tail \o <<"}">>

Tails == {<<>>, <<",">>, <<",", NL>>}

\* a reply that wraps body in a fenced code block, with or without a language tag
Fenced(body, lang) == Fence \o lang \o <<NL>> \o body \o <<NL>> \o Fence

\* replies without any brace: prose, or JSON that is no object
Prose == {<<"j", "k", ",", " ", "j">>, <<"j">>, <<>>, <<"1">>, <<"[", "1", ",", "]">>, <<QT, "j", QT>>}

ParseIdle ==
    /\ content = <<>>
    /\ origin = [kind |-> "none", fenced |-> FALSE, trailing |-> FALSE, intended |-> NoValue]
    /\ parsed = [ok |-> FALSE, val |-> NoValue, repaired |-> FALSE]
    /\ ppc = "idle"

\* A call force_parse_json(s)
ParseCall ==
    /\ \/ \E x \in IntendedObjects, tail \in Tails, lang \in {<<>>, <<"j", "k">>}, pad \in {<<>>, <<NL>>} :
            \/ /\ content = pad \o Fenced(Render(x, tail), lang) \o pad
               /\ origin = [kind |-> "object", fenced |-> TRUE, trailing |-> tail # <<>>, intended |-> x]
            \/ /\ lang = <<>>
               /\ content = pad \o Render(x, tail) \o pad
               /\ origin = [kind |-> "object", fenced |-> FALSE, trailing |-> tail # <<>>, intended |-> x]
       \/ \E p \in Prose, wrap \in BOOLEAN :
            /\ content = IF wrap THEN Fenced(p, <<>>) ELSE p
            /\ origin = [kind |-> "prose", fenced |-> wrap, trailing |-> FALSE, intended |-> NoValue]
    /\ parsed = [ok |-> FALSE, val |-> NoValue, repaired |-> FALSE]
    /\ ppc = "entry"

\* lines 171-182 as one step
ForceParse ==
    /\ ppc = "entry"
    /\ parsed' = ForceParseJson(content)
    /\ ppc' = "done"
    /\ UNCHANGED <<content, origin>>
    /\ UNCHANGED <<chunkVars, normVars, reqVars, backVars, extVars, pairVars>>

\* ------------------------------------------------------------------------
\* Parsed JSON as validate_and_postprocess sees it (src/app.py:185-229).
\* A scalar is a record [k, n, c]: k the kind, n the number in hundredths or
\* the length of a string, c the text of a string that is not a run of "a".
\* ------------------------------------------------------------------------
Unit == 100                                   \* one, in hundredths (round(..., 2))
MaxQuote == 600                               \* max_length=600, [:600]

Missing == [k |-> "missing", n |-> 0, c |-> ""]      \* the key is absent
Null == [k |-> "null", n |-> 0, c |-> ""]            \* None
Num(h) == [k |-> "num", n |-> h, c |-> ""]           \* the number h/100
Inf == [k |-> "inf", n |-> 0, c |-> ""]              \* float("inf"), what json.loads gives for 1e999
Str(len) == [k |-> "str", n |-> len, c |-> "a"]      \* "a" * len
Lit(c, len) == [k |-> "str", n |-> len, c |-> c]     \* the string c, of length len
NumStr(h) == [k |-> "numstr", n |-> h, c |-> ""]     \* the string holding the decimal text of h/100

List(q) == [k |-> "list", v |-> q]
NoList == [k |-> "missing", v |-> <<>>]
NullList == [k |-> "null", v |-> <<>>]

Abs(x) == IF x < 0 THEN -x ELSE x

\* int(x) of a float: truncation toward zero, in hundredths
Trunc(h) == IF h >= 0 THEN (h \div Unit) * Unit ELSE -((Abs(h) \div Unit) * Unit)

RECURSIVE DigitCount(_)
DigitCount(i) == IF i < 10 THEN 1 ELSE 1 + DigitCount(i \div 10)

\* len(str(x)) of the number h/100
DecLen(h) ==
    (IF h < 0 THEN 1 ELSE 0) + DigitCount(Abs(h) \div Unit)
        + (IF h % Unit = 0 THEN 0 ELSE IF h % 10 = 0 THEN 2 ELSE 3)

IsStr(x) == x.k \in {"str", "numstr"}
StrLen(x) == IF x.k = "str" THEN x.n ELSE DecLen(x.n)

\* str(x), with dflt standing for an absent key (dict.get's default)
PyStr(x, dflt) ==
    IF x.k = "missing" THEN dflt
    ELSE IF IsStr(x) THEN x
    ELSE IF x.k = "null" THEN Lit("None", 4)
    ELSE IF x.k = "inf" THEN Lit("inf", 3)
    ELSE NumStr(x.n)

\* s[:MaxQuote]
Clip(x) == IF x.k = "str" /\ x.n > MaxQuote THEN [x EXCEPT !.n = MaxQuote] ELSE x

\* float(x): [err, val]
PyFloat(x) ==
    IF x.k \in {"num", "numstr"} THEN [err |-> "none", val |-> Num(x.n)]
    ELSE IF x.k = "inf" THEN [err |-> "none", val |-> Inf]
    ELSE IF x.k = "str" THEN [err |-> "ValueError", val |-> Null]
    ELSE [err |-> "TypeError", val |-> Null]

\* int(x): [err, val]
PyInt(x) ==
    IF x.k = "num" THEN [err |-> "none", val |-> Num(Trunc(x.n))]
    ELSE IF x.k = "numstr" /\ x.n % Unit = 0 THEN [err |-> "none", val |-> Num(x.n)]
    ELSE IF x.k \in {"numstr", "str"} THEN [err |-> "ValueError", val |-> Null]
    ELSE IF x.k = "inf" THEN [err |-> "OverflowError", val |-> Null]
    ELSE [err |-> "TypeError", val |-> Null]

\* ---- the Pydantic schema, lines 31-54 (lax mode) ----
\* a str field takes str instances only
StrFieldOk(x) == IsStr(x)
\* an int field takes integers, floats without fraction and strings of an integer
IntFieldOk(x) == x.k \in {"num", "numstr"} /\ x.n % Unit = 0
\* a float field takes numbers and strings of a number
FloatFieldOk(x) == x.k \in {"num", "numstr", "inf"}

\* severity: int = Field(ge=1), a schema that lost its upper bound
SeverityOkNoUpper(x) == IntFieldOk(x) /\ x.n >= 1 * Unit

\* severity: int = Field(ge=1, le=5), line 37
SeverityOk(x) == IntFieldOk(x) /\ x.n >= 1 * Unit /\ x.n <= 5 * Unit

\* EvidenceItem, lines 31-33
EvidenceItemOk(ev) ==
    /\ IntFieldOk(ev.page) /\ ev.page.n >= 1 * Unit
    /\ StrFieldOk(ev.quote) /\ StrLen(ev.quote) >= 1 /\ StrLen(ev.quote) <= MaxQuote

\* FlagItem, lines 35-40
FlagItemOk(f) ==
    /\ StrFieldOk(f.title)
    /\ SeverityOk(f.severity)
    /\ StrFieldOk(f.why_it_matters)
    /\ StrFieldOk(f.recommendation)
    /\ f.evidence.k \in {"missing", "list"}
    /\ \A i \in 1..Len(f.evidence.v) : EvidenceItemOk(f.evidence.v[i])

\* ReportOut, lines 42-45
ReportOutOk(o) ==
    /\ StrFieldOk(o.summary)
    /\ FloatFieldOk(o.overall_risk) /\ (o.overall_risk.k = "inf" \/ o.overall_risk.n >= 0)
    /\ o.flags.k = "list"
    /\ \A i \in 1..Len(o.flags.v) : FlagItemOk(o.flags.v[i])

\* the model instance ReportOut(**o) builds from a valid o: numbers typed, defaults filled
\* (ensure_quotes_len, lines 47-54, finds no quote over MaxQuote after Field(max_length))
ReportOutOf(o) ==
    [summary |-> o.summary,
     overall_risk |-> PyFloat(o.overall_risk).val,
     flags |-> List([i \in 1..Len(o.flags.v) |->
        LET f == o.flags.v[i]
        IN [title |-> f.title,
            severity |-> Num(f.severity.n),
            why_it_matters |-> f.why_it_matters,
            recommendation |-> f.recommendation,
            evidence |-> List([j \in 1..Len(f.evidence.v) |->
                [page |-> Num(f.evidence.v[j].page.n), quote |-> Clip(f.evidence.v[j].quote)]])]])]

EmptyReport == [summary |-> Str(0), overall_risk |-> Num(0), flags |-> List(<<>>)]

\* ---- validate_and_postprocess, lines 185-229 ----
\* dict.get(key, dflt)
Get(x, dflt) == IF x.k = "missing" THEN dflt ELSE x

\* lines 187-191: missing flags -> [], overall_risk in (None, "") -> 0.0
PrePass(d) ==
    [d EXCEPT !.flags = IF @.k = "missing" THEN List(<<>>) ELSE @,
                !.overall_risk = IF @.k \in {"missing", "null"} \/ (@.k = "str" /\ @.n = 0) THEN Num(0) ELSE @]

\* int(float(f.get("severity", 3))), line 200: [err, val]
SeverityNumber(f) ==
    LET fl == PyFloat(Get(f.severity, Num(3 * Unit)))
    IN IF fl.err # "none" THEN fl ELSE PyInt(fl.val)

\* max(1, min(5, sev)), line 201
ClampSeverity(h) == Max(1 * Unit, Min(5 * Unit, h))

\* f.get("evidence", []) or [], and obj.get("flags") or []
OrEmpty(c) == IF c.k = "list" THEN c.v ELSE <<>>

\* lines 204-206 for one evidence entry: [err, val]
LenientEvidence(ev) ==
    LET page == PyInt(Get(ev.page, Num(1 * Unit)))
        quote == Clip(PyStr(ev.quote, Str(0)))
    IN IF page.err # "none" THEN [err |-> page.err, val |-> ev]
       ELSE [err |-> "none", val |-> [page |-> Num(Max(1 * Unit, page.val.n)), quote |-> quote]]

\* the first entry of a sequence of [err, val] that raised, "none" if none did
RECURSIVE FirstErr(_)
FirstErr(q) == IF q = <<>> THEN "none" ELSE IF Head(q).err # "none" THEN Head(q).err ELSE FirstErr(Tail(q))

\* lines 199-213 for one flag: [err, val]
LenientFlag(f) ==
    LET sev == SeverityNumber(f)
        items == OrEmpty(f.evidence)
        evs == [j \in 1..Len(items) |-> LenientEvidence(items[j])]
    IN IF sev.err # "none" THEN [err |-> sev.err, val |-> f]
       ELSE IF FirstErr(evs) # "none" THEN [err |-> FirstErr(evs), val |-> f]
       ELSE [err |-> "none",
             val |-> [title |-> PyStr(f.title, Lit("Risk", 4)),
                      severity |-> Num(ClampSeverity(sev.val.n)),
                      why_it_matters |-> PyStr(f.why_it_matters, Str(0)),
                      recommendation |-> PyStr(f.recommendation, Str(0)),
                      evidence |-> List([j \in 1..Len(evs) |-> evs[j].val])]]

\* float(obj.get("overall_risk") or 0.0), line 215: [err, val]
LenientRisk(x) == IF x.k = "num" /\ x.n = 0 THEN [err |-> "none", val |-> Num(0)] ELSE PyFloat(x)

\* lines 197-216, the except branch: [err, val]; the ReportOut(...) of line 216 validates again
Lenient(o) ==
    LET items == OrEmpty(o.flags)
        fs == [i \in 1..Len(items) |-> LenientFlag(items[i])]
        risk == LenientRisk(o.overall_risk)
        draft == [summary |-> PyStr(o.summary, Str(0)),
                  overall_risk |-> risk.val,
                  flags |-> List([i \in 1..Len(fs) |-> fs[i].val])]
    IN IF FirstErr(fs) # "none" THEN [err |-> FirstErr(fs), val |-> EmptyReport]
       ELSE IF risk.err # "none" THEN [err |-> risk.err, val |-> EmptyReport]
       ELSE IF ~ReportOutOk(draft) THEN [err |-> "ValidationError", val |-> EmptyReport]
       ELSE [err |-> "none", val |-> ReportOutOf(draft)]

\* a / b rounded to the nearest integer, ties to even (round() of Python 3), for a >= 0, b > 0
RoundDiv(a, b) ==
    LET q == a \div b
        r == a % b
    IN IF 2 * r < b THEN q
       ELSE IF 2 * r > b THEN q + 1
       ELSE IF q % 2 = 0 THEN q ELSE q + 1

RECURSIVE SumSeverity(_)
SumSeverity(fs) == IF fs = <<>> THEN 0 ELSE Head(fs).severity.n + SumSeverity(Tail(fs))

\* lines 219-223: round(mean(severity) / 5.0 * 100.0, 2), or 0.0 without flags
DefaultRisk(fs) ==
    IF fs # <<>> THEN Num(RoundDiv(SumSeverity(fs) * 100, 5 * Len(fs))) ELSE Num(0)

\* line 218: not report.overall_risk or report.overall_risk <= 0
RiskUnset(x) == x.k = "num" /\ x.n <= 0

\* lines 217-223
Derive(r) == IF RiskUnset(r.overall_risk) THEN [r EXCEPT !.overall_risk = DefaultRisk(r.flags.v)] ELSE r

\* lines 224-228
FinalClamp(r) ==
    [r EXCEPT !.flags = List([i \in 1..Len(r.flags.v) |->
        [r.flags.v[i] EXCEPT !.evidence = List([j \in 1..Len(@.v) |-> [@.v[j] EXCEPT !.quote = Clip(@)]])]])]

\* json.loads(report.model_dump_json()), line 229: a non-finite float is written as null
ModelDumpJson(r) == [r EXCEPT !.overall_risk = IF @.k = "inf" THEN Null ELSE @]

\* validate_and_postprocess(d): [ok, report, err]
ValidateAndPostprocess(d) ==
    LET o == PrePass(d)
        built == IF ReportOutOk(o) THEN [err |-> "none", val |-> ReportOutOf(o)] ELSE Lenient(o)
    IN IF built.err # "none" THEN [ok |-> FALSE, report |-> EmptyReport, err |-> built.err]
       ELSE [ok |-> TRUE, report |-> ModelDumpJson(FinalClamp(Derive(built.val))), err |-> "none"]

\* ---- the parsed replies validate_and_postprocess is applied to ----
MaxFlags == 2        \* most flags drawn in one reply

Flag(sev, evidence) ==
    [title |-> Str(5), severity |-> sev, why_it_matters |-> Str(9), recommendation |-> Str(7),
     evidence |-> evidence]
Evidence(page, quote) == [page |-> page, quote |-> quote]

FlagInputs ==
    { Flag(Num(300), NoList),                                         \* valid, evidence key absent
      Flag(Num(400), List(<<Evidence(Num(100), Str(1))>>)),           \* valid
      Flag(Num(500), List(<<Evidence(Num(200), Str(600))>>)),         \* valid, longest quote allowed
      Flag(Num(0), NullList),                                         \* severity 0, evidence null
      Flag(Num(1000), List(<<Evidence(Num(0), Str(601))>>)),          \* severity 10, page 0, quote of 601
      Flag(Num(370), List(<<Evidence(Num(-100), Str(10000))>>)),      \* severity 3.7, page -1, quote of 10000
      Flag(Lit("three", 5), NoList),                                  \* severity "three"
      Flag(Null, NoList),                                             \* severity null
      [title |-> Missing, severity |-> Missing, why_it_matters |-> Missing,
       recommendation |-> Missing, evidence |-> NoList],              \* {}
      Flag(NumStr(400), List(<<Evidence(NumStr(200), Num(500))>>)),   \* severity "4", page "2", quote 5
      Flag(Num(300), List(<<Evidence(Num(100), Str(0))>>)),           \* empty quote
      Flag(Num(600), List(<<>>)),                                     \* severity 6
      Flag(Num(200), List(<<Evidence(NumStr(250), Str(1))>>)) }       \* page "2.5"

FlagLists == UNION {[1..k -> FlagInputs] : k \in 0..MaxFlags}

RiskInputs == {Missing, Null, Str(0), Num(0), Num(5000), Num(15000), Num(-100), Inf}

ObjInputs ==
    {[summary |-> Str(12), overall_risk |-> r, flags |-> List(fs)] : r \in RiskInputs, fs \in FlagLists}
        \cup {[summary |-> Missing, overall_risk |-> Missing, flags |-> List(fs)] : fs \in FlagLists}
        \cup {[summary |-> Str(12), overall_risk |-> r, flags |-> c] : r \in RiskInputs, c \in {NoList, NullList}}

NoOutcome == [ok |-> FALSE, report |-> EmptyReport, err |-> "none"]

NormIdle == obj = EmptyReport /\ report = NoOutcome /\ again = NoOutcome /\ npc = "idle"

\* A call validate_and_postprocess(obj)
NormCall == obj \in ObjInputs /\ report = NoOutcome /\ again = NoOutcome /\ npc = "entry"

\* lines 185-229 on the parsed reply
Normalize ==
    /\ npc = "entry"
    /\ report' = ValidateAndPostprocess(obj)
    /\ npc' = "once"
    /\ UNCHANGED <<obj, again>>
    /\ UNCHANGED <<chunkVars, parseVars, reqVars, backVars, extVars, pairVars>>

\* lines 185-229 on the report just returned (as analyze_chunks does with its merged draft, line 322)
Renormalize ==
    /\ npc = "once"
    /\ report.ok
    /\ again' = ValidateAndPostprocess(report.report)
    /\ npc' = "twice"
    /\ UNCHANGED <<obj, report>>
    /\ UNCHANGED <<chunkVars, parseVars, reqVars, backVars, extVars, pairVars>>

\* ------------------------------------------------------------------------
\* One request: analyze (src/app.py:348-366), analyze_sse.gen (379-410),
\* analyze_chunks (295-323), call_groq_json (129-166), save_report (254-270)
\* ------------------------------------------------------------------------
Retry == 2           \* call_groq_json(chunk, retry=2)
Budget == 3          \* budget = min(3, len(chunks))
MaxDocChunks == 4    \* most chunks a document is cut into

NoError == [n |-> 0, kind |-> "None"]
NotRaised == [type |-> "none", msg |-> "", cause |-> NoError]
NoResponse == [status |-> 0, error |-> NotRaised, body |-> NoOutcome]
NoCall == [n |-> 0, chunk |-> 0, prompt |-> "none", kind |-> "none"]

\* ---- what the completion service can answer to one call ----
\* kind "error": the call raises; kind "text": a reply without braces, given by its
\* characters; kind "json": a reply force_parse_json turns into the object data
ProviderError == [kind |-> "error", content |-> <<>>, data |-> EmptyReport]
TextReply(c) == [kind |-> "text", content |-> c, data |-> EmptyReport]
JsonReply(d) == [kind |-> "json", content |-> <<>>, data |-> d]

ReplyObjs ==
    { [summary |-> Str(12), overall_risk |-> Num(6000),
       flags |-> List(<<Flag(Num(400), List(<<Evidence(Num(100), Str(1))>>))>>)],
      [summary |-> Str(20), overall_risk |-> Missing,
       flags |-> List(<<Flag(Num(300), NoList), Flag(Num(500), NoList)>>)],
      [summary |-> Str(12), overall_risk |-> Num(1),
       flags |-> List(<<Flag(Num(300), NoList)>>)],
      [summary |-> Missing, overall_risk |-> Num(0), flags |-> List(<<>>)],
      [summary |-> Str(12), overall_risk |-> Num(-100), flags |-> List(<<>>)],
      [summary |-> Str(12), overall_risk |-> Inf, flags |-> List(<<>>)] }

Replies ==
    {ProviderError, TextReply(<<"j", "k", ",", " ", "j">>)}
        \cup {JsonReply(d) : d \in ReplyObjs}

\* lines 141-143 / 159-161 on one reply: force_parse_json, then validate_and_postprocess
\* (which raises TypeError on data that is no dict, lines 187-188): [ok, report, err]
Outcome(reply) ==
    IF reply.kind = "error" THEN [ok |-> FALSE, report |-> EmptyReport, err |-> "ProviderError"]
    ELSE IF reply.kind = "text"
         THEN LET p == ForceParseJson(reply.content)
              IN IF ~p.ok THEN [ok |-> FALSE, report |-> EmptyReport, err |-> "JSONDecodeError"]
                 ELSE [ok |-> FALSE, report |-> EmptyReport, err |-> "TypeError"]
    ELSE ValidateAndPostprocess(reply.data)

\* the outcome of each reply the service can give
Outcomes == [reply \in Replies |-> Outcome(reply)]

HasBraces(c) == \E k \in 1..Len(c) : c[k] \in {"{", "}"}
IsProse(reply) == reply.kind = "text" /\ ~HasBraces(reply.content)

\* ---- the merge of analyze_chunks, lines 305-323 ----
RECURSIVE SumRisk(_)
SumRisk(rs) == IF rs = <<>> THEN 0 ELSE Head(rs).overall_risk.n + SumRisk(Tail(rs))

\* for r in results: for f in r.get("flags", []) or []: merged_flags.append(f), lines 308-316
RECURSIVE ConcatFlags(_)
ConcatFlags(rs) == IF rs = <<>> THEN <<>> ELSE Head(rs).flags.v \o ConcatFlags(Tail(rs))

\* the flags of later chunks put before those of earlier chunks
MergedFlagsLatestFirst(rs) == ConcatFlags([k \in 1..Len(rs) |-> rs[Len(rs) + 1 - k]])

\* merged_flags after the loop over results in chunk order, lines 305-316
MergedFlags(rs) == ConcatFlags(rs)

RECURSIVE NonEmptySummaries(_)
NonEmptySummaries(rs) ==
    IF rs = <<>> THEN <<>>
    ELSE LET su == PyStr(Head(rs).summary, Str(0))
         IN (IF StrLen(su) > 0 THEN <<su>> ELSE <<>>) \o NonEmptySummaries(Tail(rs))

RECURSIVE SumLen(_)
SumLen(q) == IF q = <<>> THEN 0 ELSE StrLen(Head(q)) + SumLen(Tail(q))

\* ("\n\n").join(s for s in summaries if s).strip() or "No significant risks identified."
CombinedSummary(rs) ==
    LET q == NonEmptySummaries(rs)
    IN IF q = <<>> THEN Lit("No significant risks identified.", 32)
       ELSE IF Len(q) = 1 THEN q[1]
       ELSE Lit("joined", SumLen(q) + 2 * (Len(q) - 1))

\* float(r.get("overall_risk", 0.0)) raises TypeError on None, line 310
RisksReadable(rs) == \A k \in 1..Len(rs) : rs[k].overall_risk.k = "num"

\* round() works on the binary double of the quotient: a quotient written q.5 hundredths
\* is a double slightly above or below that tie. For these quotients the double is known:
\* round(0.005, 2) = 0.01 and round(40.005, 2) = 40.01, round(30.005, 2) = 30.0
TiesAbove == {0, 4000}
TiesBelow == {3000}

\* round(sum(risks) / len(risks), 2) with risks = [0.0] if there is none, lines 317-319:
\* the values the rounding can give (both neighbours at a tie whose double is not known)
RoundedMeans(rs) ==
    IF rs = <<>> THEN {0}
    ELSE LET a == SumRisk(rs)
             b == Len(rs)
             q == a \div b
         IN IF 2 * (a % b) # b THEN {RoundDiv(a, b)}
            ELSE IF q \in TiesAbove THEN {q + 1}
            ELSE IF q \in TiesBelow THEN {q}
            ELSE {q, q + 1}

\* lines 305-323 once the mean is rounded to `overall`: [ok, report, err]
MergeResults(rs, overall) ==
    ValidateAndPostprocess(
        [summary |-> CombinedSummary(rs), overall_risk |-> Num(overall), flags |-> List(MergedFlags(rs))])

ReqIdle ==
    /\ caller = "none" /\ key_set = FALSE /\ rpc = "idle" /\ n_chunks = 0 /\ chunk_i = 0 /\ attempt = 0
    /\ last_error = NoError /\ results = <<>> /\ final = NoOutcome /\ raised = NotRaised
    /\ response = NoResponse /\ events = <<>> /\ inserts = 0 /\ stored = <<>>
    /\ total_calls = 0 /\ chunk_calls = 0 /\ last_call = NoCall /\ all_prose = TRUE
    /\ size_check = "none" /\ extractions = 0 /\ store = "none" /\ sent = {} /\ extracted = "none"

\* A request arrives at /analyze or /analyze_sse, or analyze_chunks is called with n_chunks chunks
ReqCall ==
    /\ caller \in {"analyze", "analyze_sse", "direct"}
    /\ key_set \in BOOLEAN
    /\ IF caller = "direct" THEN rpc = "entry" /\ n_chunks \in 0..MaxDocChunks
                            ELSE rpc = "start" /\ n_chunks = 0
    /\ chunk_i = 0 /\ attempt = 0
    /\ last_error = NoError /\ results = <<>> /\ final = NoOutcome /\ raised = NotRaised
    /\ response = NoResponse /\ events = <<>> /\ inserts = 0 /\ stored = <<>>
    /\ total_calls = 0 /\ chunk_calls = 0 /\ last_call = NoCall /\ all_prose = TRUE
    /\ size_check = "none" /\ extractions = 0 /\ store = "none" /\ sent = {} /\ extracted = "none"

\* an exception no handler of the endpoint catches: the framework's plain 500
Unhandled == [type |-> "unhandled", msg |-> "Internal Server Error", cause |-> NoError]

Emit(e) == IF caller = "analyze_sse" THEN Append(events, e) ELSE events
HttpError(status) == [status |-> status, error |-> NotRaised, body |-> NoOutcome]

\* lines 350-351 and 376-377: the content-type check
CheckType ==
    /\ rpc = "start"
    /\ \E pdf \in BOOLEAN :
          IF pdf THEN rpc' = "read" /\ UNCHANGED response
                 ELSE rpc' = "closed" /\ response' = HttpError(400)
    /\ UNCHANGED <<caller, key_set, n_chunks, chunk_i, attempt, last_error, results, final, raised,
                   events, inserts, stored, total_calls, chunk_calls, last_call, all_prose>>
    /\ UNCHANGED <<size_check, extractions, store, sent, extracted>>
    /\ UNCHANGED <<chunkVars, parseVars, normVars, backVars, extVars, pairVars>>

\* the size test letting every upload through
TooLargeNever(size) == FALSE

\* size_mb > MAX_SIZE_MB, lines 354 and 383
TooLarge(size) == size = "oversize"

\* lines 352-355 and 381-386: read the upload (_read_all may raise: nothing catches it in
\* analyze, the outer handler of gen turns it into an error event, lines 409-410), reject
\* it above MAX_SIZE_MB
CheckSize ==
    /\ rpc = "read"
    /\ \E size \in {"ok", "oversize", "unreadable"} :
          /\ size_check' = size
          /\ IF size = "unreadable"
             THEN /\ rpc' = "closed"
                  /\ events' = Emit("error")
                  /\ response' = IF caller = "analyze" THEN [HttpError(500) EXCEPT !.error = Unhandled]
                                                       ELSE response
             ELSE IF TooLarge(size)
             THEN /\ rpc' = "closed"
                  /\ events' = Emit("error")
                  /\ response' = IF caller = "analyze" THEN HttpError(413) ELSE response
             ELSE /\ rpc' = "extract"
                  /\ events' = Emit("ingest")
                  /\ UNCHANGED response
    /\ UNCHANGED <<caller, key_set, n_chunks, chunk_i, attempt, last_error, results, final, raised,
                   inserts, stored, total_calls, chunk_calls, last_call, all_prose>>
    /\ UNCHANGED <<extractions, store, sent, extracted>>
    /\ UNCHANGED <<chunkVars, parseVars, normVars, backVars, extVars, pairVars>>

\* extract_pdf_text, lines 92-102: PyMuPDF first, pdfplumber if it raised, ("", 0) if both raised
ExtractPdfText(primary, secondary) ==
    IF primary # "raises" THEN primary ELSE IF secondary # "raises" THEN secondary ELSE "blank"

\* the two events yielded in the other order
StageEventsSwapped == <<"analyze", "extract">>

\* the events yielded once the text is cut into chunks, lines 393 and 395
StageEvents == <<"extract", "analyze">>

\* the text handed on without the test
NoTextIgnored(t) == FALSE

\* if not text.strip(), lines 357 and 389
NoText(t) == t = "blank"

\* lines 356-359 and 388-395: extraction, the empty-text error, chunk_text
ExtractText ==
    /\ rpc = "extract"
    /\ \E primary \in {"raises", "blank", "text"}, secondary \in {"raises", "blank", "text"} :
          /\ extracted' = ExtractPdfText(primary, secondary)
          /\ IF NoText(ExtractPdfText(primary, secondary))
             THEN /\ rpc' = "closed"
                  /\ events' = Emit("error")
                  /\ response' = IF caller = "analyze" THEN HttpError(400) ELSE response
                  /\ UNCHANGED n_chunks
             ELSE /\ rpc' = "entry"
                  /\ n_chunks' \in 1..MaxDocChunks
                  /\ events' = IF caller = "analyze_sse" THEN events \o StageEvents ELSE events
                  /\ UNCHANGED response
    /\ extractions' = extractions + 1
    /\ UNCHANGED <<caller, key_set, chunk_i, attempt, last_error, results, final, raised,
                   inserts, stored, total_calls, chunk_calls, last_call, all_prose>>
    /\ UNCHANGED <<size_check, store, sent>>
    /\ UNCHANGED <<chunkVars, parseVars, normVars, backVars, extVars, pairVars>>

\* every chunk of the document analysed, whatever their number
ChunksToAnalyzeAll(n) == n

\* budget = min(3, len(chunks)), line 300
ChunksToAnalyze(n) == Min(Budget, n)

\* the empty sequence let through
NoContentIgnored(n) == FALSE

\* if not chunks, line 296
NoContent(n) == n = 0

\* lines 296-301: the empty-sequence error, the budget, the loop entered if the budget is not 0
AnalyzeChunksEntry ==
    /\ rpc = "entry"
    /\ IF NoContent(n_chunks)
       THEN /\ raised' = [type |-> "ValueError", msg |-> "No content to analyze", cause |-> NoError]
            /\ rpc' = "raised"
       ELSE /\ rpc' = IF 0 < ChunksToAnalyze(n_chunks) THEN "invoke" ELSE "merge"
            /\ UNCHANGED raised
    /\ chunk_i' = 0
    /\ results' = <<>>
    /\ UNCHANGED <<caller, key_set, n_chunks, attempt, last_error, final, response, events,
                   inserts, stored, total_calls, chunk_calls, last_call, all_prose>>
    /\ UNCHANGED <<size_check, extractions, store, sent, extracted>>
    /\ UNCHANGED <<chunkVars, parseVars, normVars, backVars, extVars, pairVars>>

\* lines 130-132: call_groq_json(chunks[i]) begins: groq_client(), last_error = None
InvokeEntry ==
    /\ rpc = "invoke"
    /\ IF key_set
       THEN /\ rpc' = "standard"
            /\ UNCHANGED raised
       ELSE /\ rpc' = "raised"
            /\ raised' = [type |-> "RuntimeError", msg |-> "Missing GROQ_API_KEY", cause |-> NoError]
    /\ last_error' = NoError
    /\ attempt' = 0
    /\ chunk_calls' = 0
    /\ all_prose' = TRUE
    /\ UNCHANGED <<caller, key_set, n_chunks, chunk_i, results, final, response, events,
                   inserts, stored, total_calls, last_call>>
    /\ UNCHANGED <<size_check, extractions, store, sent, extracted>>
    /\ UNCHANGED <<chunkVars, parseVars, normVars, backVars, extVars, pairVars>>

\* the completion call being made now, with the kind of its failure ("none" on success)
ThisCall(prompt, kind) == [n |-> total_calls + 1, chunk |-> chunk_i, prompt |-> prompt, kind |-> kind]

\* the validated report kept, and the strict call made all the same
ReturnValidatedNoReturn(rep) ==
    /\ results' = Append(results, rep)
    /\ chunk_i' = chunk_i
    /\ rpc' = "strict"

\* return validated (lines 144, 162), seen from analyze_chunks (lines 301-303)
ReturnValidated(rep) ==
    /\ results' = Append(results, rep)
    /\ chunk_i' = chunk_i + 1
    /\ rpc' = IF chunk_i + 1 < ChunksToAnalyze(n_chunks) THEN "invoke" ELSE "merge"

\* lines 133-146: the standard prompt; on any exception last_error = e and the strict call follows
StandardCall ==
    /\ rpc = "standard"
    /\ \E reply \in Replies : \E out \in {Outcomes[reply]} :
             /\ last_call' = ThisCall("standard", out.err)
             /\ all_prose' = (all_prose /\ IsProse(reply))
             /\ IF out.ok
                THEN /\ ReturnValidated(out.report)
                     /\ UNCHANGED last_error
                ELSE /\ last_error' = [n |-> total_calls + 1, kind |-> out.err]
                     /\ rpc' = "strict"
                     /\ UNCHANGED <<results, chunk_i>>
    /\ total_calls' = total_calls + 1
    /\ chunk_calls' = chunk_calls + 1
    /\ sent' = sent \cup {chunk_i}
    /\ UNCHANGED <<caller, key_set, n_chunks, attempt, final, raised, response, events, inserts, stored>>
    /\ UNCHANGED <<size_check, extractions, store, extracted>>
    /\ UNCHANGED <<chunkVars, parseVars, normVars, backVars, extVars, pairVars>>

\* the chunk that failed left out and the reports collected so far merged
OnExhaustedMergesRest == "merge"

\* raise RuntimeError(...), line 166, which nothing in the loop of analyze_chunks catches
\* (lines 301-303): the analysis is over
OnExhausted == "raised"

\* the loop running one pass more than range(retry + 1)
MoreAttemptsOneExtra(a) == a + 1 < Retry + 2

\* for attempt in range(retry + 1), line 132: is there a pass after pass a
MoreAttempts(a) == a + 1 < Retry + 1

\* the handler keeping the error of the standard call
ErrorAfterStrictKeepFirst(e, e2) == e

\* last_error = e2, line 164
ErrorAfterStrict(e, e2) == e2

\* lines 148-166: the strict prompt; on any exception last_error = e2 and the loop continues,
\* and after the last pass RuntimeError(f"Groq parsing failed: {last_error}") is raised
StrictCall ==
    /\ rpc = "strict"
    /\ \E reply \in Replies : \E out \in {Outcomes[reply]} :
          LET e2 == [n |-> total_calls + 1, kind |-> out.err]
          IN /\ last_call' = ThisCall("strict", out.err)
             /\ all_prose' = (all_prose /\ IsProse(reply))
             /\ IF out.ok
                THEN /\ ReturnValidated(out.report)
                     /\ UNCHANGED <<last_error, attempt, raised>>
                ELSE /\ last_error' = ErrorAfterStrict(last_error, e2)
                     /\ UNCHANGED <<results, chunk_i>>
                     /\ IF MoreAttempts(attempt)
                        THEN /\ attempt' = attempt + 1
                             /\ rpc' = "standard"
                             /\ UNCHANGED raised
                        ELSE /\ rpc' = OnExhausted
                             /\ raised' = [type |-> "RuntimeError", msg |-> "Groq parsing failed",
                                           cause |-> ErrorAfterStrict(last_error, e2)]
                             /\ UNCHANGED attempt
    /\ total_calls' = total_calls + 1
    /\ chunk_calls' = chunk_calls + 1
    /\ sent' = sent \cup {chunk_i}
    /\ UNCHANGED <<caller, key_set, n_chunks, final, response, events, inserts, stored>>
    /\ UNCHANGED <<size_check, extractions, store, extracted>>
    /\ UNCHANGED <<chunkVars, parseVars, normVars, backVars, extVars, pairVars>>

\* lines 305-323: merge the per-chunk reports and normalize the draft
Merge ==
    /\ rpc = "merge"
    /\ IF ~RisksReadable(results)
       THEN /\ raised' = [type |-> "TypeError", msg |-> "merge", cause |-> NoError]
            /\ rpc' = "raised"
            /\ UNCHANGED final
       ELSE \E overall \in RoundedMeans(results) : \E m \in {MergeResults(results, overall)} :
               IF m.ok
               THEN /\ final' = m
                    /\ rpc' = "returned"
                    /\ UNCHANGED raised
               ELSE /\ raised' = [type |-> m.err, msg |-> "merge", cause |-> NoError]
                    /\ rpc' = "raised"
                    /\ UNCHANGED final
    /\ UNCHANGED <<caller, key_set, n_chunks, chunk_i, attempt, last_error, results, response, events,
                   inserts, stored, total_calls, chunk_calls, last_call, all_prose>>
    /\ UNCHANGED <<size_check, extractions, store, sent, extracted>>
    /\ UNCHANGED <<chunkVars, parseVars, normVars, backVars, extVars, pairVars>>

\* the generator going on to persist and finish after the error event
AfterErrorGoesOn == "saved"

\* raise HTTPException (line 363), return (line 400): the request is over
AfterError == "closed"

\* analyze_chunks raised: lines 362-363 (RuntimeError -> HTTP 500 with its text; any other
\* exception leaves the handler), lines 398-400 (error event "Analysis failed: ...")
AnalyzeFailed ==
    /\ rpc = "raised"
    /\ rpc' = AfterError
    /\ response' = [status |-> IF caller = "analyze" THEN 500 ELSE IF caller = "analyze_sse" THEN 200 ELSE 0,
                    error |-> IF caller = "analyze" /\ raised.type # "RuntimeError" THEN Unhandled ELSE raised,
                    body |-> NoOutcome]
    /\ events' = Emit("error")
    /\ UNCHANGED <<caller, key_set, n_chunks, chunk_i, attempt, last_error, results, final, raised,
                   inserts, stored, total_calls, chunk_calls, last_call, all_prose>>
    /\ UNCHANGED <<size_check, extractions, store, sent, extracted>>
    /\ UNCHANGED <<chunkVars, parseVars, normVars, backVars, extVars, pairVars>>

\* a failed insert ending the request as a failure
AfterSaveSurfacing(st) == IF st = "raises" THEN "raised" ELSE "saved"

\* return (line 257), except Exception: pass (lines 268-270 and 404-405)
AfterSave(st) == "saved"

\* an insert that raised tried once more
InsertedWithRetry(st, n) == IF st = "unconfigured" THEN n ELSE IF st = "raises" THEN n + 2 ELSE n + 1

\* the insert calls made once save_report ran: none without a client (lines 255-257), one
\* otherwise (line 267), its exception swallowed
Inserted(st, n) == IF st = "unconfigured" THEN n ELSE n + 1

\* save_report, lines 254-270 (called at 365 and 403): best effort
SaveReport ==
    /\ rpc = "returned"
    /\ caller # "direct"
    /\ \E st \in {"unconfigured", "accepts", "raises"} :
          /\ store' = st
          /\ inserts' = Inserted(st, inserts)
          /\ stored' = IF st = "accepts" THEN Append(stored, final.report) ELSE stored
          /\ rpc' = AfterSave(st)
    /\ UNCHANGED <<caller, key_set, n_chunks, chunk_i, attempt, last_error, results, final, raised,
                   response, events, total_calls, chunk_calls, last_call, all_prose>>
    /\ UNCHANGED <<size_check, extractions, sent, extracted>>
    /\ UNCHANGED <<chunkVars, parseVars, normVars, backVars, extVars, pairVars>>

\* line 366 (JSONResponse), line 406 (done event), or the plain return of analyze_chunks
Respond ==
    /\ \/ rpc = "saved"
       \/ rpc = "returned" /\ caller = "direct"
    /\ rpc' = "closed"
    /\ response' = [status |-> 200, error |-> NotRaised, body |-> final]
    /\ events' = Emit("done")
    /\ UNCHANGED <<caller, key_set, n_chunks, chunk_i, attempt, last_error, results, final, raised,
                   inserts, stored, total_calls, chunk_calls, last_call, all_prose>>
    /\ UNCHANGED <<size_check, extractions, store, sent, extracted>>
    /\ UNCHANGED <<chunkVars, parseVars, normVars, backVars, extVars, pairVars>>

\* ------------------------------------------------------------------------
\* The backend variant, src/backend/app.py: analyze_with_groq and its endpoints
\* ------------------------------------------------------------------------
MaxBackFlags == 2    \* most flags drawn in one backend reply

\* a derived risk, kept as the fraction p/q it is computed from
Ratio(p, q) == [k |-> "ratio", n |-> p, c |-> "", q |-> q]

BackEvidence(quote) == [page |-> Num(1 * Unit), quote |-> quote]
BackFlag(sev, evidence) == [severity |-> sev, evidence |-> evidence]
BackReport(risk, flags) == [overall_risk |-> risk, flags |-> flags]
NoBackResult == [ok |-> FALSE, report |-> BackReport(Missing, <<>>)]
NoBackResponse == [status |-> 0, body |-> NoBackResult]

BackQuotes == {Missing, Str(11), Str(MaxQuote), Str(MaxQuote + 1), Str(1000)}
BackEvidenceLists ==
    {NoList, List(<<>>), List(<<BackEvidence(Str(1000)), BackEvidence(Str(11))>>)}
        \cup {List(<<BackEvidence(q)>>) : q \in BackQuotes}
BackFlags ==
    {BackFlag(Num(4 * Unit), e) : e \in BackEvidenceLists} \cup {BackFlag(Missing, List(<<>>))}
BackFlagLists == UNION {[1..k -> BackFlags] : k \in 0..MaxBackFlags}

\* what the completion service can answer: the call raises, the text is no JSON, or it
\* is the JSON text of an object
BackReplies ==
    {[kind |-> "error", data |-> BackReport(Missing, <<>>)], [kind |-> "text", data |-> BackReport(Missing, <<>>)]}
        \cup {[kind |-> "object", data |-> BackReport(r, fs)] :
                 r \in {Missing, Null, Num(70)}, fs \in BackFlagLists}

\* evidence["quote"][:MAX_EVIDENCE_LENGTH] + "...", lines 83-84
CutQuote(q) == IF q.k = "str" /\ q.n > MaxQuote THEN Lit("cut...", MaxQuote + 3) ELSE q

\* truncate_evidence, lines 80-85
TruncateEvidence(evs) == [j \in 1..Len(evs) |-> [evs[j] EXCEPT !.quote = CutQuote(@)]]

\* flag["evidence"] = truncate_evidence(flag.get("evidence", [])), lines 135-136 and 161-162
CleanFlags(fs) == [i \in 1..Len(fs) |-> [fs[i] EXCEPT !.evidence = List(TruncateEvidence(@.v))]]

RECURSIVE SumBackSeverity(_)
SumBackSeverity(fs) ==
    IF fs = <<>> THEN 0
    ELSE (IF Head(fs).severity.k = "missing" THEN 3 ELSE Head(fs).severity.n \div Unit)
            + SumBackSeverity(Tail(fs))

\* (sum(severities) / len(severities) / 5) if severities else 0.5, lines 140-141 and 165-166
BackDefaultRisk(fs) == IF fs # <<>> THEN Ratio(SumBackSeverity(fs), 5 * Len(fs)) ELSE Ratio(1, 2)

\* lines 134-143: the result of the first call, cleaned
CleanFirst(d) ==
    BackReport(IF d.overall_risk.k \in {"missing", "null"} THEN BackDefaultRisk(d.flags) ELSE d.overall_risk,
               CleanFlags(d.flags))

\* lines 160-168: the result of the retry call, cleaned (only a missing key is replaced)
CleanRetry(d) ==
    BackReport(IF d.overall_risk.k = "missing" THEN BackDefaultRisk(d.flags) ELSE d.overall_risk,
               CleanFlags(d.flags))

BackIdle ==
    /\ b_caller = "none" /\ bpc = "idle" /\ b_calls = 0 /\ b_result = NoBackResult
    /\ b_response = NoBackResponse /\ b_events = <<>> /\ b_stored = <<>>

\* a request arrives at the backend's /analyze or /analyze_sse
BackCall ==
    /\ b_caller \in {"analyze", "analyze_sse"}
    /\ bpc = "admit" /\ b_calls = 0 /\ b_result = NoBackResult
    /\ b_response = NoBackResponse /\ b_events = <<>> /\ b_stored = <<>>

BackEmit(es) == IF b_caller = "analyze_sse" THEN b_events \o es ELSE b_events
BackHttp(status) == [status |-> status, body |-> NoBackResult]

\* the request fails after admission: lines 218-219 (HTTP 500), lines 266-267 (error event)
BackFail ==
    /\ bpc' = "closed"
    /\ b_events' = BackEmit(<<"error">>)
    /\ b_response' = IF b_caller = "analyze" THEN BackHttp(500) ELSE b_response

\* lines 174-184 and 273-283: the file name, size and emptiness checks, before any stream
BackAdmit ==
    /\ bpc = "admit"
    /\ \E upload \in {"notpdf", "oversize", "empty", "ok"} :
          IF upload = "ok"
          THEN /\ bpc' = "extract"
               /\ b_events' = BackEmit(<<"ingest", "extract">>)
               /\ UNCHANGED b_response
          ELSE /\ bpc' = "closed"
               /\ b_response' = BackHttp(IF upload = "oversize" THEN 413 ELSE 400)
               /\ UNCHANGED b_events
    /\ UNCHANGED <<b_caller, b_calls, b_result, b_stored>>
    /\ UNCHANGED <<chunkVars, parseVars, normVars, reqVars, extVars, pairVars>>

\* lines 188-191 and 231-240: extract_text_from_pdf, the empty-text error
BackExtract ==
    /\ bpc = "extract"
    /\ \E outcome \in {"raises", "blank", "text"} :
          IF outcome = "raises" THEN BackFail
          ELSE IF outcome = "blank"
          THEN /\ bpc' = "closed"
               /\ b_events' = BackEmit(<<"error">>)
               /\ b_response' = IF b_caller = "analyze" THEN BackHttp(400) ELSE b_response
          ELSE /\ bpc' = "first"
               /\ b_events' = BackEmit(<<"extracted", "analyze">>)
               /\ UNCHANGED b_response
    /\ UNCHANGED <<b_caller, b_calls, b_result, b_stored>>
    /\ UNCHANGED <<chunkVars, parseVars, normVars, reqVars, extVars, pairVars>>

\* analyze_with_groq, lines 115-146: the first call; a reply that is no JSON leads to the retry
BackFirstCall ==
    /\ bpc = "first"
    /\ b_calls' = b_calls + 1
    /\ \E reply \in BackReplies :
          IF reply.kind = "error" THEN BackFail /\ UNCHANGED b_result
          ELSE IF reply.kind = "text"
          THEN bpc' = "retry" /\ UNCHANGED <<b_result, b_events, b_response>>
          ELSE /\ b_result' = [ok |-> TRUE, report |-> CleanFirst(reply.data)]
               /\ bpc' = "save"
               /\ UNCHANGED <<b_events, b_response>>
    /\ UNCHANGED <<b_caller, b_stored>>
    /\ UNCHANGED <<chunkVars, parseVars, normVars, reqVars, extVars, pairVars>>

\* analyze_with_groq, lines 147-168: the one retry; its errors leave the function
BackRetryCall ==
    /\ bpc = "retry"
    /\ b_calls' = b_calls + 1
    /\ \E reply \in BackReplies :
          IF reply.kind \in {"error", "text"} THEN BackFail /\ UNCHANGED b_result
          ELSE /\ b_result' = [ok |-> TRUE, report |-> CleanRetry(reply.data)]
               /\ bpc' = "save"
               /\ UNCHANGED <<b_events, b_response>>
    /\ UNCHANGED <<b_caller, b_stored>>
    /\ UNCHANGED <<chunkVars, parseVars, normVars, reqVars, extVars, pairVars>>

\* lines 197-208 and 245-256: the insert, skipped without a store, its exceptions printed
BackSave ==
    /\ bpc = "save"
    /\ \E st \in {"unconfigured", "accepts", "raises"} :
          b_stored' = IF st = "accepts" THEN Append(b_stored, b_result.report) ELSE b_stored
    /\ bpc' = "respond"
    /\ UNCHANGED <<b_caller, b_calls, b_result, b_response, b_events>>
    /\ UNCHANGED <<chunkVars, parseVars, normVars, reqVars, extVars, pairVars>>

\* lines 210-214 (the JSON answer) and 259-264 (the done event)
BackRespond ==
    /\ bpc = "respond"
    /\ bpc' = "closed"
    /\ b_events' = BackEmit(<<"done">>)
    /\ b_response' = [status |-> 200, body |-> b_result]
    /\ UNCHANGED <<b_caller, b_calls, b_result, b_stored>>
    /\ UNCHANGED <<chunkVars, parseVars, normVars, reqVars, extVars, pairVars>>

\* ------------------------------------------------------------------------
\* extract_pdf_text and its two methods, src/app.py:74-102
\* ------------------------------------------------------------------------
MaxPages == 2        \* most pages of a document

\* what a method does on the document: the exception it raises ("none": it returns) and
\* what the library gives for each page (k = "none": pdfplumber's extract_text() gave None)
Raising(e) == [raises |-> e, parts |-> <<>>]
Returning(parts) == [raises |-> "none", parts |-> parts]
PageText(t) == [k |-> "str", s |-> t]
NonePage == [k |-> "none", s |-> <<>>]
NoReturn == [text |-> <<>>, pages |-> -1]

PageLists(S) == UNION {[1..k -> S] : k \in 0..MaxPages}
MuOutcomes ==
    {Raising("FileDataError"), Raising("ValueError")}
        \cup {Returning(ps) : ps \in PageLists({PageText(<<>>), PageText(<<"t">>)})}
PlumberOutcomes ==
    {Raising("PDFSyntaxError"), Raising("ValueError")}
        \cup {Returning(ps) : ps \in PageLists({NonePage, PageText(<<>>), PageText(<<"t">>)})}

\* "\n\n".join(parts), lines 81 and 89
RECURSIVE JoinPages(_)
JoinPages(parts) ==
    IF parts = <<>> THEN <<>>
    ELSE IF Len(parts) = 1 THEN parts[1]
    ELSE parts[1] \o <<NL, NL>> \o JoinPages(Tail(parts))

\* extract_text_with_pymupdf, lines 74-81: the page texts joined, and d.page_count
ExtractTextWithPymupdf(parts) ==
    [text |-> JoinPages([i \in 1..Len(parts) |-> parts[i].s]), pages |-> Len(parts)]

\* extract_text_with_pdfplumber, lines 84-89: p.extract_text() or "" joined, and len(pdf.pages)
ExtractTextWithPdfplumber(parts) ==
    [text |-> JoinPages([i \in 1..Len(parts) |-> IF parts[i].k = "none" THEN <<>> ELSE parts[i].s]),
     pages |-> Len(parts)]

\* a handler that lets every exception but ValueError through
CaughtValueErrorOnly(e) == e = "ValueError"

\* except Exception, lines 96 and 100: every exception of a method is caught
Caught(e) == TRUE

ExtIdle ==
    /\ pymupdf = Raising("none") /\ pdfplumber = Raising("none")
    /\ tried = <<>> /\ extract_ret = NoReturn /\ xpc = "idle"

\* a call extract_pdf_text(pdf_bytes) on a document the two methods treat as drawn
ExtCall ==
    /\ pymupdf \in MuOutcomes /\ pdfplumber \in PlumberOutcomes
    /\ tried = <<>> /\ extract_ret = NoReturn /\ xpc = "primary"

\* lines 94-97: try: return extract_text_with_pymupdf(pdf_bytes) except Exception: pass
TryPymupdf ==
    /\ xpc = "primary"
    /\ tried' = Append(tried, "pymupdf")
    /\ IF pymupdf.raises = "none"
       THEN extract_ret' = ExtractTextWithPymupdf(pymupdf.parts) /\ xpc' = "returned"
       ELSE /\ xpc' = IF Caught(pymupdf.raises) THEN "secondary" ELSE "raised"
            /\ UNCHANGED extract_ret
    /\ UNCHANGED <<pymupdf, pdfplumber>>
    /\ UNCHANGED <<chunkVars, parseVars, normVars, reqVars, backVars, pairVars>>

\* lines 98-102: the same with extract_text_with_pdfplumber, then return "", 0
TryPdfplumber ==
    /\ xpc = "secondary"
    /\ tried' = Append(tried, "pdfplumber")
    /\ IF pdfplumber.raises = "none"
       THEN extract_ret' = ExtractTextWithPdfplumber(pdfplumber.parts) /\ xpc' = "returned"
       ELSE IF Caught(pdfplumber.raises)
       THEN extract_ret' = [text |-> <<>>, pages |-> 0] /\ xpc' = "returned"
       ELSE xpc' = "raised" /\ UNCHANGED extract_ret
    /\ UNCHANGED <<pymupdf, pdfplumber>>
    /\ UNCHANGED <<chunkVars, parseVars, normVars, reqVars, backVars, pairVars>>

\* ------------------------------------------------------------------------
\* Two requests to /analyze_sse in flight together (the generators run on worker
\* threads): what they share is the module global _supabase, lines 239-251, the
\* configuration read by groq_client, lines 123-126, and the reports table
\* ------------------------------------------------------------------------
Requests == {1, 2}

NoReq == [pc |-> "idle", reply |-> ProviderError, report |-> NoOutcome, client |-> "None", response |-> NoOutcome]
NewReq == [NoReq EXCEPT !.pc = "analyze"]

PairIdle ==
    /\ supabase_env = FALSE /\ supabase = "None" /\ table = <<>>
    /\ reqs = [r \in Requests |-> NoReq]

\* both uploads were read and cut into one chunk each; the process has served no request with
\* a store yet
PairCall ==
    /\ supabase_env \in BOOLEAN /\ supabase = "None" /\ table = <<>>
    /\ reqs = [r \in Requests |-> NewReq]

\* the report of the latest row of the table answered instead of the request's own
ReturnedLatestRow(r) ==
    IF table # <<>> THEN [ok |-> TRUE, report |-> table[Len(table)].report, err |-> "none"]
    ELSE reqs[r].report

\* yield sse_event("done", report), line 406: the local `report` of this generator
Returned(r) == reqs[r].report

\* lines 396-400: analyze_chunks on the request's own chunk, its calls answered by `reply`;
\* a failure ends the request with an error event
PairAnalyze(r) ==
    /\ reqs[r].pc = "analyze"
    /\ \E reply \in Replies : \E out \in {Outcomes[reply]} :
          reqs' = [reqs EXCEPT ![r] = [@ EXCEPT !.reply = reply, !.report = out,
                                                !.pc = IF out.ok THEN "get_supabase" ELSE "closed"]]
    /\ UNCHANGED <<supabase_env, supabase, table>>
    /\ UNCHANGED <<chunkVars, parseVars, normVars, reqVars, backVars, extVars>>

\* get_supabase, lines 241-246: the cached client if there is one, None without configuration
PairGetSupabase(r) ==
    /\ reqs[r].pc = "get_supabase"
    /\ reqs' = [reqs EXCEPT ![r] =
          IF supabase # "None" THEN [@ EXCEPT !.client = supabase, !.pc = "insert"]
          ELSE IF ~supabase_env THEN [@ EXCEPT !.pc = "respond"]
          ELSE [@ EXCEPT !.pc = "create"]]
    /\ UNCHANGED <<supabase_env, supabase, table>>
    /\ UNCHANGED <<chunkVars, parseVars, normVars, reqVars, backVars, extVars>>

\* get_supabase, lines 247-251: _supabase = create_client(...), or None when it raises
PairCreate(r) ==
    /\ reqs[r].pc = "create"
    /\ \E created \in BOOLEAN :
          IF created
          THEN /\ supabase' = "client"
               /\ reqs' = [reqs EXCEPT ![r] = [@ EXCEPT !.client = "client", !.pc = "insert"]]
          ELSE /\ reqs' = [reqs EXCEPT ![r] = [@ EXCEPT !.pc = "respond"]]
               /\ UNCHANGED supabase
    /\ UNCHANGED <<supabase_env, table>>
    /\ UNCHANGED <<chunkVars, parseVars, normVars, reqVars, backVars, extVars>>

\* save_report, lines 258-270: the insert of this request's report, its exceptions swallowed
PairInsert(r) ==
    /\ reqs[r].pc = "insert"
    /\ \E accepted \in BOOLEAN :
          table' = IF accepted THEN Append(table, [by |-> r, report |-> reqs[r].report.report]) ELSE table
    /\ reqs' = [reqs EXCEPT ![r] = [@ EXCEPT !.pc = "respond"]]
    /\ UNCHANGED <<supabase_env, supabase>>
    /\ UNCHANGED <<chunkVars, parseVars, normVars, reqVars, backVars, extVars>>

\* line 406: the done event
PairRespond(r) ==
    /\ reqs[r].pc = "respond"
    /\ reqs' = [reqs EXCEPT ![r] = [@ EXCEPT !.response = Returned(r), !.pc = "closed"]]
    /\ UNCHANGED <<supabase_env, supabase, table>>
    /\ UNCHANGED <<chunkVars, parseVars, normVars, reqVars, backVars, extVars>>

\* ------------------------------------------------------------------------
\* Specifications
\* ------------------------------------------------------------------------
InitChunk == ChunkCall /\ ParseIdle /\ NormIdle /\ ReqIdle /\ BackIdle /\ ExtIdle /\ PairIdle
NextChunk == ChunkEntry \/ ChunkStep
SpecChunk == InitChunk /\ [][NextChunk]_vars

InitParse == ParseCall /\ ChunkIdle /\ NormIdle /\ ReqIdle /\ BackIdle /\ ExtIdle /\ PairIdle
NextParse == ForceParse
SpecParse == InitParse /\ [][NextParse]_vars

InitNorm == NormCall /\ ChunkIdle /\ ParseIdle /\ ReqIdle /\ BackIdle /\ ExtIdle /\ PairIdle
NextNorm == Normalize \/ Renormalize
SpecNorm == InitNorm /\ [][NextNorm]_vars

\* one request, to src/app.py or to the backend variant
Init ==
    /\ ChunkIdle /\ ParseIdle /\ NormIdle /\ ExtIdle /\ PairIdle
    /\ \/ ReqCall /\ BackIdle
       \/ ReqIdle /\ BackCall
Next ==
    \/ CheckType \/ CheckSize \/ ExtractText
    \/ AnalyzeChunksEntry \/ InvokeEntry \/ StandardCall \/ StrictCall \/ Merge
    \/ AnalyzeFailed \/ SaveReport \/ Respond
    \/ BackAdmit \/ BackExtract \/ BackFirstCall \/ BackRetryCall \/ BackSave \/ BackRespond
Spec == Init /\ [][Next]_vars

InitExtract == ExtCall /\ ChunkIdle /\ ParseIdle /\ NormIdle /\ ReqIdle /\ BackIdle /\ PairIdle
NextExtract == TryPymupdf \/ TryPdfplumber
SpecExtract == InitExtract /\ [][NextExtract]_vars

InitPair == PairCall /\ ChunkIdle /\ ParseIdle /\ NormIdle /\ ReqIdle /\ BackIdle /\ ExtIdle
NextPair ==
    \E r \in Requests :
        PairAnalyze(r) \/ PairGetSupabase(r) \/ PairCreate(r) \/ PairInsert(r) \/ PairRespond(r)
SpecPair == InitPair /\ [][NextPair]_vars

\* ------------------------------------------------------------------------
\* Properties of chunk_text
\* ------------------------------------------------------------------------

\* C10: chunk_text covers the whole stripped text: empty or whitespace-only
\* text gives the empty sequence; otherwise the first chunk starts at 0, the
\* last chunk ends at the last character, each chunk is the slice of the
\* stripped text at its span, and every adjacent pair of chunks shares
\* exactly `overlap` characters, so no position of the text is left out.
ChunkCoverage ==
    cpc = "done" =>
        LET t == Strip(raw_text)
            n == Len(t)
        IN /\ text = t
           /\ Len(spans) = Len(chunks)
           /\ (n = 0 <=> chunks = <<>>)
           /\ n > 0 =>
                /\ spans[1][1] = 0
                /\ spans[Len(spans)][2] = n
                /\ \A i \in 1..Len(chunks) : chunks[i] = SubSeq(t, spans[i][1] + 1, spans[i][2])
                /\ \A i \in 1..(Len(chunks) - 1) :
                      /\ spans[i][2] - spans[i + 1][1] = overlap
                      /\ spans[i + 1][2] >= spans[i][2]
                /\ \A p \in 0..(n - 1) : \E i \in 1..Len(spans) : spans[i][1] <= p /\ p < spans[i][2]

\* a finished call that produced at least three chunks with a non-zero overlap
ChunkCoverageWitness ==
    /\ cpc = "done" /\ Len(chunks) >= 3 /\ overlap > 0
    /\ raw_text # Strip(raw_text)

\* C11: chunk_text terminates for every text, max_chars and overlap,
\* max_chars <= overlap included: every pass of the loop that does not end
\* the call moves the window start forward by at least one character.
WindowAdvances == [][(cpc = "loop" /\ cpc' = "loop") => start' >= start + 1]_vars

\* the spans cut so far that end at the last character of the text
EndingSpans == {i \in 1..Len(spans) : spans[i][2] = Len(text)}

\* C12: every chunk is non-empty and at most max_chars long, and chunking
\* stops as soon as a chunk reaches the end of the text: at most one chunk
\* ends there, it is the last one and the call is over once it is appended;
\* a finished call on a non-empty text has exactly one such chunk.
ChunkBounds ==
    /\ Len(spans) = Len(chunks)
    /\ \A i \in 1..Len(chunks) :
          /\ Len(chunks[i]) >= 1
          /\ Len(chunks[i]) <= max_chars
          /\ Len(chunks[i]) = spans[i][2] - spans[i][1]
    /\ Cardinality(EndingSpans) <= 1
    /\ EndingSpans # {} => (EndingSpans = {Len(spans)} /\ cpc = "done")
    /\ (cpc = "done" /\ text # <<>>) => EndingSpans = {Len(spans)}
    /\ \A i \in 1..(Len(spans) - 1) : spans[i] # spans[Len(spans)] \/ cpc = "loop"

\* a finished call of several chunks whose last chunk is shorter than the window
ChunkBoundsWitness ==
    /\ cpc = "done" /\ Len(chunks) >= 3 /\ overlap > 0
    /\ Len(chunks[Len(chunks)]) < max_chars
    /\ Len(chunks[1]) = max_chars

\* ------------------------------------------------------------------------
\* Properties of force_parse_json
\* ------------------------------------------------------------------------

\* C9: for a reply that wraps a JSON object in a fenced code block and has a
\* trailing comma before a closing brace or bracket, force_parse_json returns
\* the object the reply was written from, and the trailing-comma repair runs
\* only when the strict parse of the brace span failed.
FencedTrailingCommaParsed ==
    (ppc = "done" /\ origin.kind = "object" /\ origin.fenced /\ origin.trailing) =>
        /\ parsed.ok
        /\ parsed.val = origin.intended
        /\ parsed.repaired => ~JsonLoads(Candidate(FenceStripped(content))).ok

\* ------------------------------------------------------------------------
\* Properties of validate_and_postprocess
\* ------------------------------------------------------------------------
FlagsOf(r) == r.report.flags.v
EvidenceOf(f) == f.evidence.v

\* the bounds every returned flag and evidence entry must meet
Clamped(r) ==
    r.ok =>
        /\ r.report.flags.k = "list"
        /\ \A i \in 1..Len(FlagsOf(r)) :
              LET f == FlagsOf(r)[i]
              IN /\ f.severity.k = "num"
                 /\ f.severity.n \in {1 * Unit, 2 * Unit, 3 * Unit, 4 * Unit, 5 * Unit}
                 /\ f.evidence.k = "list"
                 /\ \A j \in 1..Len(EvidenceOf(f)) :
                       /\ IsStr(EvidenceOf(f)[j].quote)
                       /\ StrLen(EvidenceOf(f)[j].quote) <= MaxQuote
                       /\ EvidenceOf(f)[j].page.k = "num"
                       /\ EvidenceOf(f)[j].page.n >= 1 * Unit

\* C1: every report validate_and_postprocess returns has every flag severity
\* in 1..5, every evidence quote of at most 600 characters and every evidence
\* page >= 1, whatever the parsed reply carried.
ClampingInvariant == Clamped(report) /\ Clamped(again)

\* the parsed reply carried a severity outside 1..5, or a page below 1 or a quote over 600
OutOfRange(o) ==
    \E i \in 1..Len(o.flags.v) :
        LET f == o.flags.v[i]
        IN \/ f.severity.k = "num" /\ (f.severity.n < 1 * Unit \/ f.severity.n > 5 * Unit)
           \/ \E j \in 1..Len(f.evidence.v) :
                 \/ f.evidence.v[j].page.k = "num" /\ f.evidence.v[j].page.n < 1 * Unit
                 \/ f.evidence.v[j].quote.k = "str" /\ f.evidence.v[j].quote.n > MaxQuote

\* a report was returned for a reply holding severity 10, page 0 and a quote of 601 next to severity 3.7, page -1 and a quote of 10000
ClampingWitness ==
    /\ npc = "once" /\ report.ok
    /\ Len(obj.flags.v) = 2
    /\ \E i \in 1..2 :
          /\ obj.flags.v[i].severity = Num(1000) /\ FlagsOf(report)[i].severity = Num(500)
          /\ EvidenceOf(FlagsOf(report)[i]) = <<Evidence(Num(100), Str(600))>>
    /\ \E i \in 1..2 : obj.flags.v[i].severity = Num(370) /\ FlagsOf(report)[i].severity = Num(300)
    /\ OutOfRange(obj)

\* C2: every report returned satisfies 0 <= overall_risk <= 100, for every
\* model-supplied overall_risk; a supplied value above 100 comes out as 100.
RiskBounded ==
    (npc \in {"once", "twice"} /\ report.ok) =>
        /\ report.report.overall_risk.k = "num"
        /\ report.report.overall_risk.n >= 0
        /\ report.report.overall_risk.n <= 100 * Unit

\* the overall_risk given in the parsed reply is absent, null, blank or zero
RiskOmitted(o) ==
    \/ o.overall_risk.k \in {"missing", "null"}
    \/ o.overall_risk.k = "str" /\ o.overall_risk.n = 0
    \/ o.overall_risk.k = "num" /\ o.overall_risk.n = 0

\* C3: when the parsed reply omits overall_risk, or gives it as null, blank
\* or zero, the report returned has overall_risk = round(mean(severity)/5*100, 2)
\* over its flags, and 0 without flags; a supplied positive overall_risk is
\* returned unchanged.
RiskDerivation ==
    (npc \in {"once", "twice"} /\ report.ok) =>
        /\ RiskOmitted(obj) =>
              report.report.overall_risk =
                  IF FlagsOf(report) # <<>>
                  THEN Num(RoundDiv(SumSeverity(FlagsOf(report)) * 100, 5 * Len(FlagsOf(report))))
                  ELSE Num(0)
        /\ (obj.overall_risk.k = "inf" \/ (obj.overall_risk.k \in {"num", "numstr"} /\ obj.overall_risk.n > 0)) =>
              report.report.overall_risk = PyFloat(obj.overall_risk).val

\* C4: normalization is idempotent: normalizing a returned report succeeds
\* and returns the same summary, overall_risk and flags.
Idempotent ==
    npc = "twice" =>
        /\ again.ok
        /\ again.report.summary = report.report.summary
        /\ again.report.overall_risk = report.report.overall_risk
        /\ again.report.flags = report.report.flags

\* the parsed reply is an object whose only departures from the schema are the
\* ones the claim lists: numeric severities out of range or not integer, pages
\* below 1, empty or over-long quotes, a negative overall_risk, missing text fields
TextOrMissing(x) == x.k \in {"str", "missing"}
ListedProblemsOnly(o) ==
    /\ TextOrMissing(o.summary)
    /\ o.overall_risk.k \in {"missing", "null", "num"} \/ (o.overall_risk.k = "str" /\ o.overall_risk.n = 0)
    /\ o.flags.k \in {"list", "missing"}
    /\ \A i \in 1..Len(o.flags.v) :
          LET f == o.flags.v[i]
          IN /\ TextOrMissing(f.title) /\ TextOrMissing(f.why_it_matters) /\ TextOrMissing(f.recommendation)
             /\ f.severity.k = "num"
             /\ f.evidence.k \in {"list", "missing"}
             /\ \A j \in 1..Len(f.evidence.v) :
                   /\ f.evidence.v[j].page.k = "num" /\ f.evidence.v[j].page.n % Unit = 0
                   /\ f.evidence.v[j].quote.k = "str"

\* C5: validate_and_postprocess returns a report for every parsed JSON
\* object; out-of-range or non-integer severities, pages below 1, empty or
\* over-long quotes, a negative overall_risk and missing text fields are
\* repaired and never make it raise.
NeverRaises == (npc \in {"once", "twice"} /\ ListedProblemsOnly(obj)) => report.ok

\* ------------------------------------------------------------------------
\* Properties of call_groq_json within a request
\* ------------------------------------------------------------------------

\* call_groq_json has raised its terminal error for the current chunk
ParsingFailed == raised.msg = "Groq parsing failed"

TerminalErrorCarriesLastCause ==
    /\ [](ParsingFailed =>
            /\ raised.type = "RuntimeError"
            /\ chunk_calls = 2 * (Retry + 1)
            /\ last_call.n = total_calls /\ last_call.chunk = chunk_i /\ last_call.prompt = "strict"
            /\ raised.cause = [n |-> last_call.n, kind |-> last_call.kind]
            /\ raised.cause.kind # "none"
            /\ final = NoOutcome /\ inserts = 0
            /\ rpc \in {"raised", "closed"}
            /\ rpc = "closed" =>
                  /\ response.error = raised /\ response.body = NoOutcome
                  /\ caller = "analyze" => response.status = 500
                  /\ caller = "analyze_sse" => events[Len(events)] = "error")
    /\ [][raised # NotRaised => raised' = raised]_vars

\* /analyze answered 500 after six failed calls of which the last failed
\* differently from the one before it
TerminalErrorWitness ==
    /\ rpc = "closed" /\ caller = "analyze" /\ ParsingFailed
    /\ response.status = 500
    /\ last_error.n = 6 /\ raised.cause.n = 6 /\ raised.cause.kind = "ValidationError"

\* ------------------------------------------------------------------------
\* Properties of the endpoints and of analyze_chunks
\* ------------------------------------------------------------------------

\* the positions of the done and error events in the stream
TerminalEvents == {k \in 1..Len(events) : events[k] \in {"done", "error"}}

\* /analyze_sse accepted the upload and answered with an event stream
StreamOpened == caller = "analyze_sse" /\ rpc # "start" /\ response.status # 400

\* the same for the stream of the backend's sse_generator
BackTerminalEvents == {k \in 1..Len(b_events) : b_events[k] \in {"done", "error"}}

\* C13: every event stream of /analyze_sse ends with exactly one terminal
\* event, done or error and never both, and nothing is emitted after it, on
\* every path: unreadable or oversize upload, empty extraction, analysis
\* failure, persistence failure; done is the terminal event exactly when the
\* analysis returned a report. The same holds for the backend's sse_generator.
OneTerminalEvent ==
    /\ Cardinality(TerminalEvents) <= 1
    /\ TerminalEvents # {} => (TerminalEvents = {Len(events)} /\ rpc = "closed")
    /\ (StreamOpened /\ rpc = "closed") =>
          /\ TerminalEvents = {Len(events)}
          /\ events[Len(events)] = "done" <=> final.ok
          /\ events[Len(events)] = "done" => (response.status = 200 /\ response.body = final)
    /\ caller # "analyze_sse" => events = <<>>
    /\ Cardinality(BackTerminalEvents) <= 1
    /\ BackTerminalEvents # {} => (BackTerminalEvents = {Len(b_events)} /\ bpc = "closed")
    /\ (b_caller = "analyze_sse" /\ bpc = "closed" /\ b_response.status = 0) =>
          /\ BackTerminalEvents = {Len(b_events)}
          /\ b_events[Len(b_events)] = "done" <=> b_result.ok
    /\ b_caller # "analyze_sse" => b_events = <<>>

\* a stream that went through every stage and ended with done although the insert raised
OneTerminalEventWitness ==
    /\ rpc = "closed" /\ caller = "analyze_sse" /\ store = "raises"
    /\ events = <<"ingest", "extract", "analyze", "done">>

\* C14: an upload above the maximum size is rejected before extraction on
\* both endpoints (413 on /analyze, a lone error event on /analyze_sse): no
\* text extraction, no completion call and no persistence happens for it.
OversizeRejected ==
    size_check = "oversize" =>
        /\ rpc = "closed"
        /\ extractions = 0 /\ n_chunks = 0
        /\ total_calls = 0 /\ sent = {}
        /\ store = "none" /\ inserts = 0 /\ stored = <<>>
        /\ final = NoOutcome
        /\ caller = "analyze" => (response.status = 413 /\ response.body = NoOutcome)
        /\ caller = "analyze_sse" => events = <<"error">>

\* /analyze answered 413 to an oversize upload
OversizeRejectedWitness ==
    /\ size_check = "oversize" /\ caller = "analyze" /\ rpc = "closed" /\ response.status = 413

\* C15: a persistence failure (store not configured, or the insert raising)
\* is never surfaced: once analyze_chunks has returned a report the caller
\* gets that same report, as the 200 response or the done event, whatever
\* save_report met.
PersistenceNeverSurfaces ==
    store # "none" =>
        /\ final.ok /\ raised = NotRaised
        /\ rpc \in {"saved", "closed"}
        /\ stored = IF store = "accepts" THEN <<final.report>> ELSE <<>>
        /\ rpc = "closed" =>
              /\ response = [status |-> 200, error |-> NotRaised, body |-> final]
              /\ caller = "analyze_sse" => events[Len(events)] = "done"

\* /analyze answered 200 with the report although the insert raised
PersistenceWitness ==
    /\ rpc = "closed" /\ caller = "analyze" /\ store = "raises" /\ inserts = 1
    /\ response.status = 200 /\ response.body = final /\ final.report.flags.v # <<>>

\* C17: analyze_chunks runs the pipeline on exactly the first min(3, n)
\* chunks: no chunk of index 3 or more reaches the completion service, and the
\* report returned is the merge of the reports of chunks 0 .. min(3, n) - 1.
BudgetRespected ==
    /\ sent \subseteq 0..(Min(Budget, n_chunks) - 1)
    /\ Len(results) <= Min(Budget, n_chunks)
    /\ \A k \in 0..(Len(results) - 1) : k \in sent
    /\ final.ok =>
          /\ Len(results) = Min(Budget, n_chunks)
          /\ sent = 0..(Min(Budget, n_chunks) - 1)
    /\ rpc = "returned" => final \in {MergeResults(results, overall) : overall \in RoundedMeans(results)}

\* a report returned for a four-chunk document after calls for chunks 0, 1 and 2 only
BudgetRespectedWitness ==
    /\ rpc = "closed" /\ final.ok /\ n_chunks = 4 /\ sent = {0, 1, 2} /\ Len(results) = 3

\* the number of flags in the reports of the chunks before chunk k
RECURSIVE FlagsBefore(_)
FlagsBefore(k) == IF k <= 1 THEN 0 ELSE FlagsBefore(k - 1) + Len(results[k - 1].flags.v)

\* C18: the flags of the report analyze_chunks returns are the per-chunk
\* flags concatenated, in chunk order and then within-chunk order, none
\* dropped, duplicated, reordered or altered by the final normalization.
FlagsConcatenated ==
    final.ok =>
        LET fl == final.report.flags.v
        IN /\ Len(fl) = FlagsBefore(Len(results) + 1)
           /\ \A k \in 1..Len(results) : \A j \in 1..Len(results[k].flags.v) :
                 fl[FlagsBefore(k) + j] = results[k].flags.v[j]

\* a report merged from three chunks, the first with one flag and the second with two other flags
FlagsConcatenatedWitness ==
    /\ rpc = "closed" /\ final.ok /\ Len(results) = 3
    /\ Len(results[1].flags.v) = 1 /\ Len(results[2].flags.v) = 2
    /\ results[1].flags.v[1] # results[2].flags.v[1]
    /\ Len(final.report.flags.v) >= 3

\* C19: the overall_risk of the report analyze_chunks returns is the mean of
\* the per-chunk overall_risk values rounded to 2 decimals; the final
\* normalization does not replace it with a value derived from severities.
RiskIsMean ==
    final.ok =>
        /\ final.report.overall_risk.k = "num"
        /\ final.report.overall_risk.n \in RoundedMeans(results)

\* C20: analyze_chunks called with an empty chunk sequence raises ValueError
\* "No content to analyze" without any completion call or retry, and this
\* error is raised for the empty sequence only.
NoContentError ==
    /\ (caller = "direct" /\ n_chunks = 0 /\ rpc # "entry") =>
          /\ raised = [type |-> "ValueError", msg |-> "No content to analyze", cause |-> NoError]
          /\ rpc \in {"raised", "closed"}
          /\ total_calls = 0 /\ chunk_calls = 0 /\ attempt = 0 /\ sent = {} /\ last_call = NoCall
          /\ results = <<>> /\ final = NoOutcome
          /\ rpc = "closed" => response.error = raised
    /\ raised.msg = "No content to analyze" => (caller = "direct" /\ n_chunks = 0)

\* the direct call on the empty sequence ended with the error
NoContentWitness ==
    /\ caller = "direct" /\ n_chunks = 0 /\ rpc = "closed"
    /\ response.error.type = "ValueError" /\ total_calls = 0

\* the evidence quotes of a sequence of flags are all within the limit
QuotesWithin(fs) ==
    \A i \in 1..Len(fs) : \A j \in 1..Len(fs[i].evidence.v) :
        LET q == fs[i].evidence.v[j].quote
        IN ~IsStr(q) \/ StrLen(q) <= MaxQuote

\* C16: no report returned or stored by any analysis path has an evidence
\* quote longer than 600 characters: the reports of validate_and_postprocess
\* and analyze_chunks, what /analyze and /analyze_sse answer and store, and
\* the same for the backend, where analyze_with_groq passes every flag's
\* evidence through truncate_evidence.
QuoteLimitEverywhere ==
    /\ report.ok => QuotesWithin(report.report.flags.v)
    /\ again.ok => QuotesWithin(again.report.flags.v)
    /\ \A k \in 1..Len(results) : QuotesWithin(results[k].flags.v)
    /\ final.ok => QuotesWithin(final.report.flags.v)
    /\ response.body.ok => QuotesWithin(response.body.report.flags.v)
    /\ \A k \in 1..Len(stored) : QuotesWithin(stored[k].flags.v)
    /\ b_result.ok => QuotesWithin(b_result.report.flags)
    /\ b_response.body.ok => QuotesWithin(b_response.body.report.flags)
    /\ \A k \in 1..Len(b_stored) : QuotesWithin(b_stored[k].flags)

\* ------------------------------------------------------------------------
\* Properties of extract_pdf_text
\* ------------------------------------------------------------------------

\* what extract_pdf_text has to return on the document: the result of the first method
\* that does not raise, empty text and zero pages when both raise
FirstThatReturns ==
    IF pymupdf.raises = "none" THEN ExtractTextWithPymupdf(pymupdf.parts)
    ELSE IF pdfplumber.raises = "none" THEN ExtractTextWithPdfplumber(pdfplumber.parts)
    ELSE [text |-> <<>>, pages |-> 0]

\* C21: extract_pdf_text never raises; the primary method is attempted first,
\* the secondary only if the primary raised; the call returns the result of
\* the first method that did not raise, even when that result is empty text,
\* and empty text with zero pages when both raise.
ExtractNeverRaises ==
    /\ xpc # "raised"
    /\ tried \in {<<>>, <<"pymupdf">>, <<"pymupdf", "pdfplumber">>}
    /\ Len(tried) = 2 => pymupdf.raises # "none"
    /\ xpc = "returned" =>
          /\ extract_ret = FirstThatReturns
          /\ Len(tried) = (IF pymupdf.raises = "none" THEN 1 ELSE 2)

\* the primary method returned empty text for a one-page document the secondary method
\* would have read: the empty result is what extract_pdf_text returned
ExtractNeverRaisesWitness ==
    /\ xpc = "returned"
    /\ pymupdf = Returning(<<PageText(<<>>)>>)
    /\ pdfplumber = Returning(<<PageText(<<"t">>)>>)
    /\ extract_ret = [text |-> <<>>, pages |-> 1]
    /\ tried = <<"pymupdf">>

\* ------------------------------------------------------------------------
\* Properties of the request after extraction
\* ------------------------------------------------------------------------

\* C22: when extraction yields empty or whitespace-only text, the request ends
\* with the extraction error (HTTP 400 on /analyze, an error event on
\* /analyze_sse), and no completion call and no persistence is made for it.
BlankExtractionRejected ==
    extracted = "blank" =>
        /\ rpc = "closed"
        /\ caller = "analyze" => (response.status = 400 /\ ~response.body.ok)
        /\ caller = "analyze_sse" => events = <<"ingest", "error">>
        /\ total_calls = 0 /\ sent = {} /\ ~final.ok
        /\ inserts = 0 /\ store = "none" /\ stored = <<>>

BlankExtractionWitness ==
    /\ extracted = "blank" /\ extractions = 1
    /\ caller = "analyze_sse" /\ rpc = "closed"
    /\ events = <<"ingest", "error">>

\* ------------------------------------------------------------------------
\* Properties of the lenient pass of validate_and_postprocess
\* ------------------------------------------------------------------------

\* the call went through the except branch, lines 195-216
LenientPassRan == npc \in {"once", "twice"} /\ ~ReportOutOk(PrePass(obj))

\* the severity the lenient pass is described to give: the number rounded to the nearest
\* integer and clamped to [1,5], 3 for a value that is no number (or is absent)
DescribedSeverity(x) ==
    IF x.k \in {"num", "numstr"} /\ x.n >= 0
    THEN Num(Max(1 * Unit, Min(5 * Unit, RoundDiv(x.n, Unit) * Unit)))
    ELSE Num(3 * Unit)

\* nothing but a severity can make the coercion of this flag raise
OnlySeverityInDoubt(f) ==
    \A j \in 1..Len(OrEmpty(f.evidence)) : LenientEvidence(OrEmpty(f.evidence)[j]).err = "none"

\* C23: in the lenient pass each flag's severity is the value parsed as a
\* number, rounded to the nearest integer and clamped to [1,5]; a value that
\* cannot be parsed as a number ("three", null) gives severity 3 and the
\* normalization still returns a report.
SeverityRoundedAndClamped ==
    LenientPassRan =>
        LET fs == OrEmpty(PrePass(obj).flags)
        IN /\ report.ok =>
                \A i \in 1..Len(fs) : report.report.flags.v[i].severity = DescribedSeverity(fs[i].severity)
           /\ ((\A i \in 1..Len(fs) : OnlySeverityInDoubt(fs[i])) /\ LenientRisk(PrePass(obj).overall_risk).err = "none")
                => report.err \notin {"ValueError", "TypeError", "OverflowError"}

\* a Report that satisfies the schema: overall_risk in [0,100], every severity in 1..5,
\* every page >= 1, every quote of length 1..600
ValidReport(o) ==
    /\ o.summary.k = "str"
    /\ o.overall_risk.k = "num" /\ o.overall_risk.n >= 0 /\ o.overall_risk.n <= 100 * Unit
    /\ o.flags.k = "list"
    /\ \A i \in 1..Len(o.flags.v) :
          LET f == o.flags.v[i]
          IN /\ f.title.k = "str" /\ f.why_it_matters.k = "str" /\ f.recommendation.k = "str"
             /\ f.severity.k = "num" /\ f.severity.n \in {1 * Unit, 2 * Unit, 3 * Unit, 4 * Unit, 5 * Unit}
             /\ f.evidence.k = "list"
             /\ \A j \in 1..Len(f.evidence.v) :
                   LET ev == f.evidence.v[j]
                   IN /\ ev.page.k = "num" /\ ev.page.n % Unit = 0 /\ ev.page.n >= 1 * Unit
                      /\ ev.quote.k = "str" /\ ev.quote.n >= 1 /\ ev.quote.n <= MaxQuote

\* C24: normalizing an already-valid Report is a no-op: for every report x
\* that satisfies the schema, validate_and_postprocess(x) returns x, the same
\* in summary, overall_risk and flags.
ValidReportUnchanged ==
    (npc \in {"once", "twice"} /\ ValidReport(obj)) =>
        /\ report.ok
        /\ report.report.summary = obj.summary
        /\ report.report.overall_risk = obj.overall_risk
        /\ report.report.flags = obj.flags

\* ------------------------------------------------------------------------
\* The order of the completion calls
\* ------------------------------------------------------------------------

\* this step makes a completion call
CallMade == total_calls' = total_calls + 1

\* C25: analyze_chunks processes the chunks one at a time in document order:
\* every call is for the chunk the loop is at, a call for the next chunk
\* comes only after a call for the chunk before it succeeded, and no chunk is
\* skipped or revisited; when the pipeline fails terminally on a chunk the
\* whole analysis fails with that error: no later completion call is made,
\* and no report, partial or not, is returned or persisted.
ChunksInOrder ==
    /\ [](/\ rpc \in {"standard", "strict"} => (Len(results) = chunk_i /\ sent \subseteq 0..chunk_i)
          /\ raised.type # "none" =>
                /\ ~final.ok /\ ~response.body.ok
                /\ inserts = 0 /\ store = "none" /\ stored = <<>>
                /\ "done" \notin {events[k] : k \in 1..Len(events)}
                /\ rpc \in {"raised", "closed"}
                /\ rpc = "closed" => response.error.type # "none"
                /\ (rpc = "closed" /\ raised.type = "RuntimeError") => response.error = raised)
    /\ [][/\ CallMade =>
                /\ raised.type = "none"
                /\ last_call'.chunk = chunk_i
                /\ last_call.n > 0 =>
                      \/ last_call'.chunk = last_call.chunk
                      \/ last_call'.chunk = last_call.chunk + 1 /\ last_call.kind = "none"
          /\ raised.type # "none" => (total_calls' = total_calls /\ raised' = raised)]_vars

\* the second of four chunks failed terminally after the first was analysed: chunks 0 and 1
\* were sent and nothing else, and the request ended with that error
ChunksInOrderWitness ==
    /\ rpc = "closed" /\ caller = "analyze_sse"
    /\ n_chunks = MaxDocChunks
    /\ raised.type = "RuntimeError" /\ raised.msg = "Groq parsing failed"
    /\ Len(results) = 1 /\ chunk_i = 1 /\ sent = {0, 1}
    /\ events = <<"ingest", "extract", "analyze", "error">>

\* C26: in call_groq_json a strict-prompt call is issued only immediately
\* after a failed standard-prompt attempt for the same chunk, and the first
\* attempt, standard or strict, whose reply parses and validates ends the
\* invocation: its report is returned and no completion call follows a
\* success in that invocation.
StrictOnlyAfterFailure ==
    [][CallMade =>
          /\ last_call'.prompt = "strict" =>
                /\ last_call.n = total_calls /\ last_call.n > 0
                /\ last_call.prompt = "standard" /\ last_call.kind # "none"
                /\ last_call.chunk = last_call'.chunk
          /\ (last_call.n > 0 /\ last_call.kind = "none") => last_call'.chunk # last_call.chunk
          /\ last_call'.kind = "none" =>
                /\ Len(results') = Len(results) + 1
                /\ results' = Append(results, results'[Len(results')])
                /\ chunk_i' = chunk_i + 1
                /\ rpc' \in {"invoke", "merge"}
          /\ last_call'.kind # "none" => results' = results]_vars

\* a strict call succeeded right after the failed standard call of the second pass
StrictOnlyAfterFailureWitness ==
    /\ last_call.prompt = "strict" /\ last_call.kind = "none"
    /\ chunk_calls = 4 /\ attempt = 1
    /\ Len(results) = 1 /\ chunk_i = 1

\* ------------------------------------------------------------------------
\* The stage events and the insert of src/app.py
\* ------------------------------------------------------------------------
Stages == <<"ingest", "extract", "analyze", "done">>

\* C27: on /analyze_sse the stage events appear in the order ingest, extract,
\* analyze, done, each at most once: extract only after ingest, analyze only
\* after extract, done only after all three; an error event can end the
\* sequence after any prefix of ingest, extract, analyze (the empty prefix
\* included, for an oversize upload).
StagesInOrder ==
    caller = "analyze_sse" =>
        \/ \E k \in 0..4 : events = SubSeq(Stages, 1, k)
        \/ \E k \in 0..3 : events = Append(SubSeq(Stages, 1, k), "error")

\* the stream of a two-chunk document analysed and answered without a store
StagesInOrderWitness ==
    /\ caller = "analyze_sse" /\ rpc = "closed" /\ store = "unconfigured"
    /\ n_chunks = 2 /\ Len(results) = 2
    /\ events = Stages

\* C30: the insert is attempted at most once per request, only after
\* analyze_chunks has returned a report and before the response or done event
\* is produced; a request that ends in an error (wrong type, oversize, empty
\* extraction, analysis failure) never attempts an insert.
InsertOnceAfterAnalysis ==
    /\ [](/\ inserts <= 1 /\ Len(stored) <= inserts
          /\ (inserts > 0 \/ store # "none") => (final.ok /\ raised.type = "none")
          /\ (caller # "direct" /\ rpc = "closed" /\ ~response.body.ok) =>
                (inserts = 0 /\ store = "none" /\ stored = <<>>)
          /\ (caller # "direct" /\ response.body.ok) => store # "none")
    /\ [][inserts' # inserts =>
            /\ inserts = 0 /\ inserts' = 1
            /\ final.ok /\ rpc = "returned"
            /\ response = NoResponse /\ response' = NoResponse
            /\ "done" \notin {events'[k] : k \in 1..Len(events')}]_vars

\* the report of a one-chunk document stored by the one insert, then answered on /analyze
InsertOnceWitness ==
    /\ caller = "analyze" /\ rpc = "closed" /\ n_chunks = 1
    /\ store = "accepts" /\ inserts = 1 /\ stored = <<final.report>>
    /\ response.status = 200 /\ response.body = final

\* ------------------------------------------------------------------------
\* Properties of the backend's analyze_with_groq
\* ------------------------------------------------------------------------

\* C28: the retry path of analyze_with_groq applies the same validation as
\* the primary path: whichever path returned, the evidence went through
\* truncate_evidence and overall_risk was derived from the severities whenever
\* the reply had none or null; and the retry happens at most once, a second
\* parse failure propagating to the caller.
RetrySameValidation ==
    /\ b_calls <= 2
    /\ b_result.ok =>
          /\ b_result.report.overall_risk.k \notin {"missing", "null"}
          /\ \A i \in 1..Len(b_result.report.flags) :
                /\ b_result.report.flags[i].evidence.k = "list"
                /\ \A j \in 1..Len(b_result.report.flags[i].evidence.v) :
                      LET q == b_result.report.flags[i].evidence.v[j].quote
                      IN ~IsStr(q) \/ StrLen(q) <= MaxQuote + 3

\* ------------------------------------------------------------------------
\* Properties of two requests handled together
\* ------------------------------------------------------------------------

\* every finished request was answered from its own analysis, and every row of the table
\* holds the report of the request that wrote it
OwnReportOnly ==
    /\ \A r \in Requests :
          /\ reqs[r].pc # "analyze" => reqs[r].report = Outcomes[reqs[r].reply]
          /\ reqs[r].pc = "closed" =>
                IF Outcomes[reqs[r].reply].ok THEN reqs[r].response = Outcomes[reqs[r].reply]
                ELSE ~reqs[r].response.ok
    /\ \A k \in 1..Len(table) : table[k].report = Outcomes[reqs[table[k].by].reply].report

====
